---- MODULE Spec2Model ----
(***************************************************************************)
(* Oracle job dispatcher: a coordinator fans a query out to workers,       *)
(* collects their outcomes inside a bounded window and aggregates them.    *)
(* The repository holds two coordinators:                                  *)
(*   - the bus topology   (NATS publish/subscribe, pendingReqs map),       *)
(*   - the direct topology (worker registry, one HTTP call per worker).    *)
(* The variable `topology` is fixed by Init and selects which of the two   *)
(* programs a behaviour describes.                                         *)
(*                                                                         *)
(* Data conventions                                                        *)
(*   - worker ids are the naturals 1..NWorkers (opaque strings in the code)*)
(*   - request ids are naturals: EmptyID is the empty string, 1..NCallerIDs*)
(*     are ids supplied by callers, GenerateRequestID(r) is the fresh id   *)
(*     the handler of round r draws from the uuid generator                *)
(*   - a WorkerResult value is an integer number of tenths                 *)
(*   - a FinalValue is an exact fraction <<num, den>> of tenths            *)
(*   - ResponseTime and Reliable are carried by no decision of the         *)
(*     coordinator and are left out of the records                         *)
(***************************************************************************)
EXTENDS Integers, Sequences, FiniteSets, TLC

\* ------------------------------------------------------------------ bounds
\* bus topology: rounds submitted in one behaviour
NRounds == 2
\* direct topology: rounds submitted in one behaviour (at most NRounds)
NDirectRounds == 1
\* bus topology: workers subscribed to oracle.tasks
NSubscribers == 1
\* direct topology: worker ids that may register, and RegisterWorker calls
NWorkers == 2
MaxRegistrations == 2
\* request ids a caller may supply itself
NCallerIDs == 1
\* outcomes in a list handed to the aggregator alone
MaxOutcomes == 3
\* outcomes in a list handed to the annotator alone
MaxCollected == 5
\* the largest count handed to CalculateReliability alone
MaxCount == 10

\* ------------------------------------------------------- program constants
\* make(chan models.WorkerResult, 10)
ResultChanCap == 10
\* maxRetries := 3 in main of the worker
maxRetries == 3
\* req.ID == "" : the empty request id
EmptyID == 0

Rounds == 1..NRounds
DirectRounds == 1..NDirectRounds
WorkerIDs == 1..NWorkers
Subscribers == 1..NSubscribers
CallerIDs == 1..NCallerIDs
\* the value worker w's simulation yields when it succeeds (tenths)
SimulatedValue(w) == 100 * w + 4
Endpoints == {"e1", "e2"}

\* utils.GenerateRequestID: a fresh id, distinct from every caller id and
\* from the id generated for any other round
GenerateRequestID(r) == NCallerIDs + r

RequestIDs == CallerIDs \cup {GenerateRequestID(r) : r \in Rounds}

\* ------------------------------------------------------------ pure helpers
\* a Value is a float64, counted here in tenths: Whole(10) is 10.0, 101 is 10.1
Whole(n) == 10 * n

Abs(n) == IF n < 0 THEN 0 - n ELSE n

RECURSIVE GCD(_, _)
GCD(a, b) == IF b = 0 THEN a ELSE GCD(b, a % b)

\* the exact quotient n / d (d > 0) as a reduced fraction
Frac(n, d) ==
    LET g == GCD(Abs(n), d)
    IN  IF n = 0 THEN <<0, 1>> ELSE <<n \div g, d \div g>>

RECURSIVE SumValues(_)
SumValues(s) == IF s = <<>> THEN 0 ELSE Head(s).Value + SumValues(Tail(s))

\* a filter that lets every outcome through
SuccessfulOrNot(results) == results

\* the outcomes the aggregation loops count: those with Err == ""
Successful(results) == SelectSeq(results, LAMBDA x : x.Err = "")

Range(s) == {s[i] : i \in DOMAIN s}

\* models.WorkerResult
WorkerResult(w, id, v, e) ==
    [WorkerID |-> w, RequestID |-> id, Value |-> v, Err |-> e]

\* an average that divides by the length of the whole list
aggregateAverageOverAll(results) ==
    LET ok == Successful(results)
    IN  IF Len(results) = 0 THEN <<0, 1>>
        ELSE IF Len(ok) = 0 THEN <<0, 1>>
        ELSE Frac(SumValues(ok), Len(results))

\* aggregateAverage: sum / count over the outcomes with Err == ""
aggregateAverage(results) ==
    LET ok == Successful(results)
    IN  IF Len(results) = 0 THEN <<0, 1>>
        ELSE IF Len(ok) = 0 THEN <<0, 1>>
        ELSE Frac(SumValues(ok), Len(ok))

\* the values of the outcomes with Err == "", in the order of the list
SuccessfulValues(results) ==
    [i \in 1..Len(Successful(results)) |-> Successful(results)[i].Value]

\* sort.Float64s: the values in ascending order
RECURSIVE Insert(_, _)
Insert(v, sorted) ==
    IF sorted = <<>> THEN <<v>>
    ELSE IF v <= Head(sorted) THEN <<v>> \o sorted
    ELSE <<Head(sorted)>> \o Insert(v, Tail(sorted))

RECURSIVE Float64s(_)
Float64s(values) ==
    IF values = <<>> THEN <<>> ELSE Insert(Head(values), Float64s(Tail(values)))

\* a median that takes the middle of the values as they came
aggregateMedianUnsorted(results) ==
    LET values == SuccessfulValues(results)
        n == Len(values)
    IN  IF Len(results) = 0 THEN <<0, 1>>
        ELSE IF n = 0 THEN <<0, 1>>
        ELSE IF n % 2 = 0 THEN Frac(values[n \div 2] + values[(n \div 2) + 1], 2)
        ELSE Frac(values[(n \div 2) + 1], 1)

\* aggregateMedian: the middle of the sorted successful values, values[n/2]
\* being the element of index n/2 counted from 0
aggregateMedian(results) ==
    LET values == Float64s(SuccessfulValues(results))
        n == Len(values)
    IN  IF Len(results) = 0 THEN <<0, 1>>
        ELSE IF n = 0 THEN <<0, 1>>
        ELSE IF n % 2 = 0 THEN Frac(values[n \div 2] + values[(n \div 2) + 1], 2)
        ELSE Frac(values[(n \div 2) + 1], 1)

\* int(v + 0.5): Go's conversion of a float64 to int truncates towards zero
Rounded(v) ==
    IF v + 5 >= 0 THEN (v + 5) \div 10 ELSE 0 - ((0 - (v + 5)) \div 10)

\* voteCounts[k] of aggregateMajorityVote
VoteCount(values, k) == Cardinality({i \in DOMAIN values : Rounded(values[i]) = k})

\* aggregateMajorityVote: every value the call can return. The loop over the
\* map keeps the first key it meets that has the most votes, and Go leaves the
\* order of a range over a map unspecified, so with a tie each of the tied
\* keys can be the one returned.
aggregateMajorityVote(results) ==
    LET values == SuccessfulValues(results)
        keys == {Rounded(values[i]) : i \in DOMAIN values}
    IN  IF Len(results) = 0 THEN {<<0, 1>>}
        ELSE IF Len(values) = 0 THEN {<<0, 1>>}
        ELSE {Frac(Whole(k), 1) : k \in {j \in keys :
                  \A other \in keys : VoteCount(values, other) <= VoteCount(values, j)}}

\* AggregateResults: the strategy switch, as the set of values the call can
\* return (one value except for a tied majority vote)
AggregateResults(results, strategy) ==
    IF strategy = "median" THEN {aggregateMedian(results)}
    ELSE IF strategy = "majority" THEN aggregateMajorityVote(results)
    ELSE {aggregateAverage(results)}

\* AggregateResults of the second package coordinator (the text that follows
\* the middleware): the strategy is not looked at
AggregateResultsOfAverageOnly(results, strategy) ==
    aggregateAverage(results)

\* the value of a call that can return one value only; both coordinators pass
\* "average" (the bus one literally, the direct one through c.aggregator)
Only(values) == CHOOSE v \in values : TRUE

CountSuccess(results) == Len(Successful(results))

\* an annotator whose upper band starts above 0.8
calculateReliabilityNoteAbove(results) ==
    LET y == Len(results)
        x == CountSuccess(results)
    IN  IF y = 0 THEN <<"No workers responded">>
        ELSE IF 5 * x > 4 * y THEN <<"All workers responded successfully">>
        ELSE IF 2 * x >= y THEN <<"Partial response", x, y>>
        ELSE <<"Low reliability", x, y>>

\* calculateReliabilityNote; float64(x)/float64(y) >= 0.8 is 5x >= 4y and
\* >= 0.5 is 2x >= y for the small counts of a round
calculateReliabilityNote(results) ==
    LET y == Len(results)
        x == CountSuccess(results)
    IN  IF y = 0 THEN <<"No workers responded">>
        ELSE IF 5 * x >= 4 * y THEN <<"All workers responded successfully">>
        ELSE IF 2 * x >= y THEN <<"Partial response", x, y>>
        ELSE <<"Low reliability", x, y>>

\* models.OracleResult
OracleResult(id, fv, responses, note) ==
    [RequestID |-> id, FinalValue |-> fv, WorkerResponses |-> responses,
     ReliabilityNote |-> note]

\* Coordinator.aggregateResults (bus) and the tail of SubmitRequest (direct)
aggregateResults(requestID, results) ==
    OracleResult(requestID, Only(AggregateResults(results, "average")),
                 results, calculateReliabilityNote(results))

\* ------------------------------------------------------------------- state
\* a reliability test that asks for more than the threshold
CalculateReliabilityAbove(successCount, totalCount) ==
    IF totalCount = 0
    THEN FALSE
    ELSE LET successRate == Frac(successCount, totalCount)
         IN  10 * successRate[1] > 7 * successRate[2]

\* CalculateReliability (part_004:44-50): false for no attempts, else the
\* quotient of the counts compared with 0.7. For counts below 10^15 the
\* float64 quotient is on the same side of the literal 0.7 as the exact one.
CalculateReliability(successCount, totalCount) ==
    IF totalCount = 0
    THEN FALSE
    ELSE LET successRate == Frac(successCount, totalCount)
         IN  10 * successRate[1] >= 7 * successRate[2]

VARIABLES
    topology,       \* "bus" or "direct": which coordinator is running
    pc,             \* pc[r]: where round r stands in handleRequest/SubmitRequest
    reqID,          \* reqID[r]: req.ID of round r once the handler has bound it
    workerResults,  \* workerResults[r]: the local slice of the collection loop
    result,         \* result[r]: <<>> or <<the OracleResult SubmitRequest returns>>
    response,       \* response[r]: <<>> or <<what the request endpoint answered>>
    timeoutFired,   \* timeoutFired[r]: the time.After channel of round r is ready
    ctxDone,        \* ctxDone[r]: ctx.Done() of round r is ready
    pendingReqs,    \* bus: map RequestID -> result channel (named by its round)
    resultChan,     \* bus: resultChan[r] = [buf, closed] of round r's channel
    tasks,          \* bus: task messages on oracle.tasks not yet processed
    resultsMsgs,    \* bus: result messages on oracle.results not yet handled
    cb,             \* bus: the oracle.results subscription callback
    lastLog,        \* bus: what handleWorkerResult logged last
    panicked,       \* bus: the coordinator process died of a runtime panic
    workers,        \* direct: the registry, map WorkerID -> WorkerInfo
    clock,          \* direct: time.Now(), counted in registrations so far
    workerList,     \* direct: workerList[r], the snapshot round r dispatches to
    goroutines,     \* direct: goroutines[r][w], the dispatch goroutine for w
    results,        \* direct: results[r] = [buf, closed], the fan-in channel
    aggregator,     \* the strategy handed to AggregateResults (c.aggregator)
    aggInput,       \* aggregator alone: the outcome list of the call
    finalValue,     \* aggregator alone: <<>>, or <<v>> once the call returned v
    reliabilityNote, \* annotator alone: <<>>, or <<note>> once the call returned
    rejected,       \* bus: rejected[r] = <<>>, or <<what the rate limiter answered>>
    workerLog,      \* bus: the last warning a worker's oracle.tasks callback logged
    main,           \* direct: main[w], the main function of worker w's process
    counts,         \* utils alone: <<successCount, totalCount>> of the call
    reliable        \* utils alone: <<>>, or <<b>> once the call returned b

busVars == <<pendingReqs, resultChan, tasks, resultsMsgs, cb, lastLog, panicked>>
roundVars == <<pc, reqID, workerResults, result, response, timeoutFired, ctxDone>>
directVars == <<workers, clock, workerList, goroutines, results>>
aggVars == <<aggregator, aggInput, finalValue, reliabilityNote>>
gateVars == <<rejected>>
workerVars == <<workerLog>>
startVars == <<main>>
utilVars == <<counts, reliable>>
vars == <<topology, utilVars, startVars, gateVars, workerVars, roundVars, busVars, directVars,
          aggVars>>

NoChan == [buf |-> <<>>, closed |-> FALSE]
\* a warning of handleWorkerResult: what it says and the request id it names
Log(event, id) == [event |-> event, id |-> id]
NoLog == Log("none", EmptyID)
CbIdle == [pc |-> "idle", held |-> <<>>]

\* an answer of the request endpoint
HTTPResponse(code, error, body) == [code |-> code, error |-> error, body |-> body]

InitGate == rejected = [r \in Rounds |-> <<>>]

InitWorkerLog == workerLog = NoLog

\* main of a worker process before its flags are parsed: where it stands, the
\* -register flag, the loop variable i, `registered`, the calls of
\* RegisterWithCoordinator made so far, and whether the server was started
Main(pc0, register) ==
    [pc |-> pc0, register |-> register, i |-> 0, registered |-> FALSE, calls |-> 0,
     serving |-> FALSE]

InitMain == main = [w \in WorkerIDs |-> Main("flags", TRUE)]

InitUtil == counts = <<0, 0>> /\ reliable = <<>>

InitRounds ==
    /\ pc = [r \in Rounds |-> "idle"]
    /\ reqID = [r \in Rounds |-> EmptyID]
    /\ workerResults = [r \in Rounds |-> <<>>]
    /\ result = [r \in Rounds |-> <<>>]
    /\ response = [r \in Rounds |-> <<>>]
    /\ timeoutFired = [r \in Rounds |-> FALSE]
    /\ ctxDone = [r \in Rounds |-> FALSE]

\* NewCoordinator (bus): an empty pendingReqs map
InitBus ==
    /\ pendingReqs = <<>>
    /\ resultChan = [r \in Rounds |-> NoChan]
    /\ tasks = {}
    /\ resultsMsgs = {}
    /\ cb = CbIdle
    /\ lastLog = NoLog
    /\ panicked = FALSE

\* the JSON bodies a caller may post to /request: one that does not bind, and
\* {id?, query} with the id absent or supplied
RequestBodies ==
    {[valid |-> FALSE, id |-> EmptyID]}
        \cup {[valid |-> TRUE, id |-> i] : i \in {EmptyID} \cup CallerIDs}

\* ------------------------------------------------- bus topology: the round
\* a handler that hands the request on with the id it came with
HandleRequestKeepsID(r) ==
    /\ topology = "bus"
    /\ ~panicked
    /\ pc[r] = "idle"
    /\ \E body \in RequestBodies :
         IF ~body.valid
         THEN /\ response' = [response EXCEPT ![r] =
                     <<HTTPResponse(400, "invalid request", <<>>)>>]
              /\ pc' = [pc EXCEPT ![r] = "done"]
              /\ UNCHANGED reqID
         ELSE /\ reqID' = [reqID EXCEPT ![r] = body.id]
              /\ pc' = [pc EXCEPT ![r] = "submit"]
              /\ UNCHANGED response
    /\ UNCHANGED <<topology, utilVars, startVars, gateVars, workerVars, aggVars, directVars, workerResults, result, timeoutFired,
                   ctxDone, busVars>>

\* RateLimit (middleware.go:107-122) for a request whose limiter.Allow() gave
\* `allowed`: a rejected request is answered with WriteJSONError 429, and the
\* function returns; an allowed one gets no answer from the middleware
RateLimit(allowed) ==
    IF allowed THEN <<>> ELSE <<HTTPResponse(429, "rate limit exceeded", <<>>)>>

\* one POST /request through the handler chain of StartHTTPServer. The rate
\* limiting middleware (lines 207-213) comes first; whether the limiter of the
\* caller's IP still has a token depends on the caller's other traffic. The
\* middleware calls c.Next() when the request is allowed and returns without
\* c.Abort() when it is rejected, so in both cases the chain goes on to
\* handleRequest, up to its call of SubmitRequest: bind the body, assign an id
HandleRequest(r) ==
    /\ topology = "bus"
    /\ ~panicked
    /\ pc[r] = "idle"
    /\ \E allowed \in BOOLEAN : rejected' = [rejected EXCEPT ![r] = RateLimit(allowed)]
    /\ \E body \in RequestBodies :
         IF ~body.valid
         THEN /\ response' = [response EXCEPT ![r] =
                     <<HTTPResponse(400, "invalid request", <<>>)>>]
              /\ pc' = [pc EXCEPT ![r] = "done"]
              /\ UNCHANGED reqID
         ELSE /\ reqID' = [reqID EXCEPT ![r] =
                     IF body.id = EmptyID THEN GenerateRequestID(r) ELSE body.id]
              /\ pc' = [pc EXCEPT ![r] = "submit"]
              /\ UNCHANGED response
    /\ UNCHANGED <<topology, utilVars, startVars, workerVars, aggVars, directVars, workerResults, result, timeoutFired, ctxDone, busVars>>

\* c.pendingReqs[req.ID] = resultChan, as a map update
MapPut(m, k, v) == [x \in DOMAIN m \cup {k} |-> IF x = k THEN v ELSE m[x]]

\* delete(c.pendingReqs, req.ID)
MapDelete(m, k) == [x \in DOMAIN m \ {k} |-> m[x]]

\* SubmitRequest, lines 99-103: make the channel and register it under req.ID
RegisterPending(r) ==
    /\ topology = "bus"
    /\ ~panicked
    /\ pc[r] = "submit"
    /\ resultChan' = [resultChan EXCEPT ![r] = NoChan]
    /\ pendingReqs' = MapPut(pendingReqs, reqID[r], r)
    /\ pc' = [pc EXCEPT ![r] = "publish"]
    /\ UNCHANGED <<topology, utilVars, startVars, gateVars, workerVars, aggVars, directVars, reqID, workerResults, result, response, timeoutFired,
                   ctxDone, tasks, resultsMsgs, cb, lastLog, panicked>>

\* the task message each subscriber of oracle.tasks receives; n names the
\* publication, so that two publications of one id stay two messages
TaskMsg(w, id, n) == [to |-> w, ID |-> id, n |-> n, kind |-> "request"]

\* PublishTask succeeded: the bus hands one copy to every subscribed worker
\* and the round enters its collection loop (time.After is armed there)
PublishTask(r) ==
    /\ topology = "bus"
    /\ ~panicked
    /\ pc[r] = "publish"
    /\ tasks' = tasks \cup {TaskMsg(w, reqID[r], r) : w \in Subscribers}
    /\ pc' = [pc EXCEPT ![r] = "collect"]
    /\ UNCHANGED <<topology, utilVars, startVars, gateVars, workerVars, aggVars, directVars, reqID, workerResults, result, response, timeoutFired,
                   ctxDone, pendingReqs, resultChan, resultsMsgs, cb, lastLog,
                   panicked>>

\* a publish failure that returns without running the cleanup
PublishTaskFailsNoCleanup(r) ==
    /\ topology = "bus"
    /\ ~panicked
    /\ pc[r] = "publish"
    /\ result' = [result EXCEPT ![r] =
           <<OracleResult(reqID[r], <<0, 1>>, <<>>, <<"Failed to publish task">>)>>]
    /\ pc' = [pc EXCEPT ![r] = "respond"]
    /\ UNCHANGED <<topology, utilVars, startVars, gateVars, workerVars, aggVars, directVars, reqID, workerResults, response, timeoutFired,
                   ctxDone, busVars>>

\* a publish failure that is swallowed: the round collects as if it had published
PublishTaskFailsThenCollects(r) ==
    /\ topology = "bus"
    /\ ~panicked
    /\ pc[r] = "publish"
    /\ pc' = [pc EXCEPT ![r] = "collect"]
    /\ UNCHANGED <<topology, utilVars, startVars, gateVars, workerVars, aggVars, directVars, reqID, workerResults, result, response,
                   timeoutFired, ctxDone, busVars>>

\* PublishTask returned an error: SubmitRequest returns at once (lines 114-121)
PublishTaskFails(r) ==
    /\ topology = "bus"
    /\ ~panicked
    /\ pc[r] = "publish"
    /\ result' = [result EXCEPT ![r] =
           <<OracleResult(reqID[r], <<0, 1>>, <<>>, <<"Failed to publish task">>)>>]
    /\ pc' = [pc EXCEPT ![r] = "deferDelete"]
    /\ UNCHANGED <<topology, utilVars, startVars, gateVars, workerVars, aggVars, directVars, reqID, workerResults, response, timeoutFired, ctxDone,
                   busVars>>

\* a return that drains the channel into the average but not into the list
ReturnAggregateDrained(r) ==
    /\ result' = [result EXCEPT ![r] =
           <<OracleResult(reqID[r],
                          Only(AggregateResults(workerResults[r] \o resultChan[r].buf,
                                                "average")),
                          workerResults[r],
                          calculateReliabilityNote(workerResults[r]))>>]
    /\ pc' = [pc EXCEPT ![r] = "deferDelete"]

\* the return statements of the collection loop: aggregate what was collected
ReturnAggregate(r) ==
    /\ result' = [result EXCEPT ![r] = <<aggregateResults(reqID[r], workerResults[r])>>]
    /\ pc' = [pc EXCEPT ![r] = "deferDelete"]

\* a collection loop that returns once every subscriber has replied
CollectReceiveAllExpected(r) ==
    /\ topology = "bus"
    /\ ~panicked
    /\ pc[r] = "collect"
    /\ \/ resultChan[r].buf # <<>>
       \/ resultChan[r].closed
       \/ Len(workerResults[r]) >= NSubscribers
    /\ IF resultChan[r].buf # <<>>
       THEN /\ workerResults' = [workerResults EXCEPT ![r] =
                   Append(@, Head(resultChan[r].buf))]
            /\ resultChan' = [resultChan EXCEPT ![r].buf = Tail(@)]
            /\ UNCHANGED <<pc, result>>
       ELSE /\ ReturnAggregate(r)
            /\ UNCHANGED <<workerResults, resultChan>>
    /\ UNCHANGED <<topology, utilVars, startVars, gateVars, workerVars, aggVars, directVars, reqID, response, timeoutFired, ctxDone, pendingReqs,
                   tasks, resultsMsgs, cb, lastLog, panicked>>

\* a collection loop that puts the received result in front of the others
CollectReceiveInFront(r) ==
    /\ topology = "bus"
    /\ ~panicked
    /\ pc[r] = "collect"
    /\ resultChan[r].buf # <<>> \/ resultChan[r].closed
    /\ IF resultChan[r].buf # <<>>
       THEN /\ workerResults' = [workerResults EXCEPT ![r] =
                   <<Head(resultChan[r].buf)>> \o @]
            /\ resultChan' = [resultChan EXCEPT ![r].buf = Tail(@)]
            /\ UNCHANGED <<pc, result>>
       ELSE /\ ReturnAggregate(r)
            /\ UNCHANGED <<workerResults, resultChan>>
    /\ UNCHANGED <<topology, utilVars, startVars, gateVars, workerVars, aggVars, directVars, reqID, response, timeoutFired, ctxDone, pendingReqs,
                   tasks, resultsMsgs, cb, lastLog, panicked>>

\* select case `result, ok := <-resultChan`: append a buffered result; on a
\* closed and drained channel ok is false and the round returns
CollectReceive(r) ==
    /\ topology = "bus"
    /\ ~panicked
    /\ pc[r] = "collect"
    /\ resultChan[r].buf # <<>> \/ resultChan[r].closed
    /\ IF resultChan[r].buf # <<>>
       THEN /\ workerResults' = [workerResults EXCEPT ![r] =
                   Append(@, Head(resultChan[r].buf))]
            /\ resultChan' = [resultChan EXCEPT ![r].buf = Tail(@)]
            /\ UNCHANGED <<pc, result>>
       ELSE /\ ReturnAggregate(r)
            /\ UNCHANGED <<workerResults, resultChan>>
    /\ UNCHANGED <<topology, utilVars, startVars, gateVars, workerVars, aggVars, directVars, reqID, response, timeoutFired, ctxDone, pendingReqs,
                   tasks, resultsMsgs, cb, lastLog, panicked>>

\* select case `<-timeout`
CollectTimeout(r) ==
    /\ topology = "bus"
    /\ ~panicked
    /\ pc[r] = "collect"
    /\ timeoutFired[r]
    /\ ReturnAggregate(r)
    /\ UNCHANGED <<topology, utilVars, startVars, gateVars, workerVars, aggVars, directVars, reqID, workerResults, response, timeoutFired, ctxDone,
                   busVars>>

\* select case `<-ctx.Done()`
CollectCtxDone(r) ==
    /\ topology = "bus"
    /\ ~panicked
    /\ pc[r] = "collect"
    /\ ctxDone[r]
    /\ ReturnAggregate(r)
    /\ UNCHANGED <<topology, utilVars, startVars, gateVars, workerVars, aggVars, directVars, reqID, workerResults, response, timeoutFired, ctxDone,
                   busVars>>

\* a cleanup that closes the channel and leaves the map entry behind
DeferDeleteLeaks(r) ==
    /\ topology = "bus"
    /\ ~panicked
    /\ pc[r] = "deferDelete"
    /\ pc' = [pc EXCEPT ![r] = "deferClose"]
    /\ UNCHANGED <<topology, utilVars, startVars, gateVars, workerVars, aggVars, directVars, reqID, workerResults, result, response,
                   timeoutFired, ctxDone, busVars>>

\* the deferred cleanup, first half: delete(c.pendingReqs, req.ID) under the lock
DeferDelete(r) ==
    /\ topology = "bus"
    /\ ~panicked
    /\ pc[r] = "deferDelete"
    /\ pendingReqs' = MapDelete(pendingReqs, reqID[r])
    /\ pc' = [pc EXCEPT ![r] = "deferClose"]
    /\ UNCHANGED <<topology, utilVars, startVars, gateVars, workerVars, aggVars, directVars, reqID, workerResults, result, response, timeoutFired,
                   ctxDone, resultChan, tasks, resultsMsgs, cb, lastLog, panicked>>

\* the deferred cleanup, second half: close(resultChan); SubmitRequest returns
DeferClose(r) ==
    /\ topology = "bus"
    /\ ~panicked
    /\ pc[r] = "deferClose"
    /\ resultChan' = [resultChan EXCEPT ![r].closed = TRUE]
    /\ pc' = [pc EXCEPT ![r] = "respond"]
    /\ UNCHANGED <<topology, utilVars, startVars, gateVars, workerVars, aggVars, directVars, reqID, workerResults, result, response, timeoutFired,
                   ctxDone, pendingReqs, tasks, resultsMsgs, cb, lastLog, panicked>>

\* a handler that answers 503 whenever no outcome was successful
RespondErrorWithoutSuccess(r) ==
    /\ topology = "bus"
    /\ ~panicked
    /\ pc[r] = "respond"
    /\ response' = [response EXCEPT ![r] =
           IF CountSuccess(result[r][1].WorkerResponses) = 0
           THEN <<HTTPResponse(503, "no workers available", <<>>)>>
           ELSE <<HTTPResponse(200, "", result[r])>>]
    /\ pc' = [pc EXCEPT ![r] = "done"]
    /\ UNCHANGED <<topology, utilVars, startVars, gateVars, workerVars, aggVars, directVars, reqID, workerResults, result, timeoutFired,
                   ctxDone, busVars>>

\* a handler that answers 504 "worker timeout" for a round whose timer fired
RespondTimeoutAsError(r) ==
    /\ topology = "bus"
    /\ ~panicked
    /\ pc[r] = "respond"
    /\ response' = [response EXCEPT ![r] =
           IF timeoutFired[r]
           THEN <<HTTPResponse(504, "worker timeout", <<>>)>>
           ELSE IF Len(result[r][1].WorkerResponses) = 0
           THEN <<HTTPResponse(503, "no workers available", <<>>)>>
           ELSE <<HTTPResponse(200, "", result[r])>>]
    /\ pc' = [pc EXCEPT ![r] = "done"]
    /\ UNCHANGED <<topology, utilVars, startVars, gateVars, workerVars, aggVars, directVars, reqID, workerResults, result, timeoutFired,
                   ctxDone, busVars>>

\* handleRequest after SubmitRequest returned (lines 244-250)
Respond(r) ==
    /\ topology = "bus"
    /\ ~panicked
    /\ pc[r] = "respond"
    /\ response' = [response EXCEPT ![r] =
           IF Len(result[r][1].WorkerResponses) = 0
           THEN <<HTTPResponse(503, "no workers available", <<>>)>>
           ELSE <<HTTPResponse(200, "", result[r])>>]
    /\ pc' = [pc EXCEPT ![r] = "done"]
    /\ UNCHANGED <<topology, utilVars, startVars, gateVars, workerVars, aggVars, directVars, reqID, workerResults, result, timeoutFired, ctxDone,
                   busVars>>

\* time.After(5 * time.Second) of the collection loop becomes ready
TimeoutFires(r) ==
    /\ topology = "bus"
    /\ ~panicked
    /\ pc[r] = "collect"
    /\ ~timeoutFired[r]
    /\ timeoutFired' = [timeoutFired EXCEPT ![r] = TRUE]
    /\ UNCHANGED <<topology, utilVars, startVars, gateVars, workerVars, aggVars, directVars, pc, reqID, workerResults, result, response, ctxDone,
                   busVars>>

\* the caller's context is cancelled or its deadline passes while the round runs
CtxCancel(r) ==
    /\ topology = "bus"
    /\ ~panicked
    /\ pc[r] = "collect"
    /\ ~ctxDone[r]
    /\ ctxDone' = [ctxDone EXCEPT ![r] = TRUE]
    /\ UNCHANGED <<topology, utilVars, startVars, gateVars, workerVars, aggVars, directVars, pc, reqID, workerResults, result, response,
                   timeoutFired, busVars>>

\* ----------------------------------------------- bus topology: the workers
\* a result message on oracle.results; n names the task it answers
ResultMsg(res, n) == [res |-> res, n |-> n]

\* Worker.processTask: a value, or the simulated failure with value 0
ProcessOutcomes(w, id) ==
    {WorkerResult(w, id, SimulatedValue(w), ""),
     WorkerResult(w, id, 0, "simulated worker failure")}

\* a message on oracle.tasks that is no JSON
Garbage(w, n) == [to |-> w, ID |-> EmptyID, n |-> n, kind |-> "garbage"]

\* a callback that answers every message, decoded or not
SubscribeTasksAnswersAll(w) ==
    /\ topology \in {"bus", "worker"}
    /\ \E t \in tasks :
         /\ t.to = w
         /\ tasks' = tasks \ {t}
         /\ \E res \in ProcessOutcomes(w, t.ID) :
              resultsMsgs' = resultsMsgs \cup {ResultMsg(res, t.n)}
         /\ UNCHANGED workerLog
    /\ UNCHANGED <<topology, utilVars, startVars, gateVars, aggVars, directVars, roundVars, pendingReqs, resultChan, cb, lastLog,
                   panicked>>

\* the oracle.tasks callback of worker w (lines 216-232): a message that does
\* not decode is logged and dropped; otherwise process the task and publish
\* the result; when nc.Publish returns an error the failure is logged and the
\* result is lost
SubscribeTasks(w) ==
    /\ topology \in {"bus", "worker"}
    /\ \E t \in tasks :
         /\ t.to = w
         /\ tasks' = tasks \ {t}
         /\ IF t.kind = "garbage"
            THEN /\ workerLog' = Log("failed to unmarshal task", EmptyID)
                 /\ UNCHANGED resultsMsgs
            ELSE \E res \in ProcessOutcomes(w, t.ID), published \in BOOLEAN :
                   IF published
                   THEN /\ resultsMsgs' = resultsMsgs \cup {ResultMsg(res, t.n)}
                        /\ UNCHANGED workerLog
                   ELSE /\ workerLog' = Log("failed to publish result", EmptyID)
                        /\ UNCHANGED resultsMsgs
    /\ UNCHANGED <<topology, utilVars, startVars, gateVars, aggVars, directVars, roundVars, pendingReqs, resultChan, cb, lastLog,
                   panicked>>

\* ------------------------------ bus topology: the oracle.results callback
\* a lookup that ignores the key: any registered channel will do
LookupPendingAnyRound(id) ==
    {pendingReqs[k] : k \in DOMAIN pendingReqs}

\* the channels handleWorkerResult finds under a request id (none or one)
LookupPending(id) ==
    IF id \in DOMAIN pendingReqs THEN {pendingReqs[id]} ELSE {}

\* handleWorkerResult, lines 78-85: look the channel up under the read lock;
\* an unknown request id is logged and the result discarded
HandleWorkerResultLookup ==
    /\ topology = "bus"
    /\ ~panicked
    /\ cb.pc = "idle"
    /\ \E m \in resultsMsgs :
         /\ resultsMsgs' = resultsMsgs \ {m}
         /\ IF LookupPending(m.res.RequestID) = {}
            THEN /\ cb' = CbIdle
                 /\ lastLog' = Log("unknown request", m.res.RequestID)
            ELSE /\ \E ch \in LookupPending(m.res.RequestID) :
                       cb' = [pc |-> "send", held |-> <<[result |-> m.res, ch |-> ch]>>]
                 /\ UNCHANGED lastLog
    /\ UNCHANGED <<topology, utilVars, startVars, gateVars, workerVars, aggVars, directVars, roundVars, pendingReqs, resultChan, tasks, panicked>>

\* handleWorkerResult, lines 88-92: the non-blocking send. A send on a closed
\* channel is a runtime panic in the subscription goroutine, which nothing
\* recovers: the process dies. A full buffer drops the result.
HandleWorkerResultSend ==
    /\ topology = "bus"
    /\ ~panicked
    /\ cb.pc = "send"
    /\ LET h == cb.held[1]
       IN  IF resultChan[h.ch].closed
           THEN /\ panicked' = TRUE
                /\ UNCHANGED <<resultChan, lastLog>>
           ELSE IF Len(resultChan[h.ch].buf) < ResultChanCap
           THEN /\ resultChan' = [resultChan EXCEPT ![h.ch].buf = Append(@, h.result)]
                /\ UNCHANGED <<lastLog, panicked>>
           ELSE /\ lastLog' = Log("channel full", h.result.RequestID)
                /\ UNCHANGED <<resultChan, panicked>>
    /\ cb' = CbIdle
    /\ UNCHANGED <<topology, utilVars, startVars, gateVars, workerVars, aggVars, directVars, roundVars, pendingReqs, tasks, resultsMsgs>>

NextBus ==
    \/ \E r \in Rounds :
         \/ HandleRequest(r)
         \/ RegisterPending(r)
         \/ PublishTask(r)
         \/ PublishTaskFails(r)
         \/ CollectReceive(r)
         \/ CollectTimeout(r)
         \/ CollectCtxDone(r)
         \/ DeferDelete(r)
         \/ DeferClose(r)
         \/ Respond(r)
         \/ TimeoutFires(r)
         \/ CtxCancel(r)
    \/ \E w \in Subscribers : SubscribeTasks(w)
    \/ HandleWorkerResultLookup
    \/ HandleWorkerResultSend

\* ------------------------------------------- direct topology: the registry
\* models.WorkerInfo as handleRegister builds it
WorkerInfo(w, endpoint, lastSeen) ==
    [ID |-> w, Endpoint |-> endpoint, LastSeen |-> lastSeen, Reliable |-> TRUE]

\* NewCoordinator (direct): an empty registry
InitDirect ==
    /\ workers = <<>>
    /\ clock = 0
    /\ workerList = [r \in Rounds |-> <<>>]
    /\ goroutines = [r \in Rounds |-> <<>>]
    /\ results = [r \in Rounds |-> NoChan]

\* a registration that keeps the record a worker already has
RegisterWorkerKeepsFirst(w, endpoint) ==
    /\ topology = "direct"
    /\ clock < MaxRegistrations
    /\ clock' = clock + 1
    /\ workers' = IF w \in DOMAIN workers THEN workers
                  ELSE MapPut(workers, w, WorkerInfo(w, endpoint, clock + 1))
    /\ UNCHANGED <<topology, utilVars, startVars, gateVars, workerVars, aggVars, roundVars, busVars, workerList, goroutines, results>>

\* handleRegister / RegisterWorker: upsert by id, LastSeen = time.Now()
RegisterWorker(w, endpoint) ==
    /\ topology = "direct"
    /\ clock < MaxRegistrations
    /\ clock' = clock + 1
    /\ workers' = MapPut(workers, w, WorkerInfo(w, endpoint, clock + 1))
    /\ UNCHANGED <<topology, utilVars, startVars, gateVars, workerVars, aggVars, roundVars, busVars, workerList, goroutines, results>>

\* ---------------------------------------------- direct topology: the round
\* handleRequest up to the call of SubmitRequest
DirectHandleRequest(r) ==
    /\ topology = "direct"
    /\ pc[r] = "idle"
    /\ \E body \in RequestBodies :
         IF ~body.valid
         THEN /\ response' = [response EXCEPT ![r] =
                     <<HTTPResponse(400, "bind error", <<>>)>>]
              /\ pc' = [pc EXCEPT ![r] = "done"]
              /\ UNCHANGED reqID
         ELSE /\ reqID' = [reqID EXCEPT ![r] =
                     IF body.id = EmptyID THEN GenerateRequestID(r) ELSE body.id]
              /\ pc' = [pc EXCEPT ![r] = "submit"]
              /\ UNCHANGED response
    /\ UNCHANGED <<topology, utilVars, startVars, gateVars, workerVars, aggVars, workerResults, result, timeoutFired, ctxDone, busVars,
                   directVars>>

\* the tail of SubmitRequest (lines 240-254) once dispatchToWorkers returned
\* the list `collected`
DirectReturn(r, collected) ==
    /\ result' = [result EXCEPT ![r] = <<aggregateResults(reqID[r], collected)>>]
    /\ pc' = [pc EXCEPT ![r] = "respond"]

\* a dispatch goroutine that has not heard from its worker yet
GoRunning == [pc |-> "running", called |-> <<>>, reply |-> <<>>]

\* a dispatch that starts the collection loop whatever the snapshot holds
DispatchWaitsWhenEmpty(r) ==
    /\ topology = "direct"
    /\ pc[r] = "submit"
    /\ workerList' = [workerList EXCEPT ![r] = workers]
    /\ goroutines' = [goroutines EXCEPT ![r] = [w \in DOMAIN workers |-> GoRunning]]
    /\ results' = [results EXCEPT ![r] = NoChan]
    /\ pc' = [pc EXCEPT ![r] = "collect"]
    /\ UNCHANGED <<topology, utilVars, startVars, gateVars, workerVars, aggVars, reqID, workerResults, result, response, timeoutFired,
                   ctxDone, busVars, workers, clock>>

\* dispatchToWorkers, lines 259-289: copy the registry under the read lock;
\* with no worker return the empty list, else make the channel and start one
\* goroutine per snapshot entry (and the one that closes the channel)
Dispatch(r) ==
    /\ topology = "direct"
    /\ pc[r] = "submit"
    /\ workerList' = [workerList EXCEPT ![r] = workers]
    /\ IF DOMAIN workers = {}
       THEN /\ DirectReturn(r, <<>>)
            /\ UNCHANGED <<goroutines, results>>
       ELSE /\ goroutines' = [goroutines EXCEPT ![r] =
                   [w \in DOMAIN workers |-> GoRunning]]
            /\ results' = [results EXCEPT ![r] = NoChan]
            /\ pc' = [pc EXCEPT ![r] = "collect"]
            /\ UNCHANGED result
    /\ UNCHANGED <<topology, utilVars, startVars, gateVars, workerVars, aggVars, reqID, workerResults, response, timeoutFired, ctxDone,
                   busVars, workers, clock>>

\* ------------------------------------- direct topology: one call to a worker
\* a reply body: text that is no JSON ("garbage"), the object {"error": ...}
\* gin writes with a 400 ("error"), or a JSON WorkerResult ("result")
Body(kind, w, id, v, e) ==
    [kind |-> kind, worker_id |-> w, request_id |-> id, value |-> v, err |-> e]

\* what the HTTP exchange with a worker can come to: the transport fails
\* (refused, client timeout, cancelled context), the body cannot be read, or a
\* response with a status and a body arrives
Reply(transport, status, body) ==
    [transport |-> transport, status |-> status, body |-> body]

NoBody == Body("garbage", 0, EmptyID, 0, "")

\* Worker.handleTask / processTask answering round id from worker w: 200 with
\* the simulated value or the simulated failure, 400 with an error object when
\* the task does not bind
HandleTaskReplies(w, id) ==
    {Reply("ok", 200, Body("result", w, id, SimulatedValue(w), "")),
     Reply("ok", 200, Body("result", w, id, 0, "simulated worker failure")),
     Reply("ok", 400, Body("error", 0, EmptyID, 0, ""))}

\* replies of an endpoint that is not a well-behaved worker: a result naming
\* another worker and another request, text that is no JSON, a 500 page
ForeignReplies(w, id) ==
    {Reply("ok", 200, Body("result", (w % NWorkers) + 1, EmptyID, SimulatedValue(w), "")),
     Reply("ok", 200, NoBody),
     Reply("ok", 500, NoBody)}

WorkerReplies(w, id) ==
    {Reply("failed", 0, NoBody), Reply("readfailed", 200, NoBody)}
        \cup HandleTaskReplies(w, id) \cup ForeignReplies(w, id)

\* c.httpClient.Do(httpReq) under the context of round r (line 344): what the
\* endpoint of w answered, or the error Do returns once the context is done
Canceled == Reply("canceled", 0, NoBody)

CallReplies(r, w) ==
    WorkerReplies(w, reqID[r]) \cup (IF ctxDone[r] THEN {Canceled} ELSE {})

\* json.Unmarshal(body, &result): an error for text that is no JSON; for a JSON
\* object every field whose key matches a tag of WorkerResult is set and all
\* others keep their zero value ("error" is no key of WorkerResult)
Unmarshal(body) ==
    [ok |-> body.kind # "garbage",
     value |-> IF body.kind = "result"
               THEN WorkerResult(body.worker_id, body.request_id, body.value, body.err)
               ELSE WorkerResult(0, EmptyID, 0, "")]

\* sendTaskToWorker without lines 385-386: the decoded reply is returned as it is
sendTaskToWorkerAsDecoded(id, worker, reply) ==
    IF reply.transport \in {"failed", "canceled"}
    THEN WorkerResult(worker.ID, id, 0, "HTTP request failed")
    ELSE IF reply.transport = "readfailed"
    THEN WorkerResult(worker.ID, id, 0, "failed to read response body")
    ELSE IF ~Unmarshal(reply.body).ok
    THEN WorkerResult(worker.ID, id, 0, "failed to decode response")
    ELSE Unmarshal(reply.body).value

\* sendTaskToWorker: the outcome it returns for a reply; resp.StatusCode is
\* never read
sendTaskToWorker(id, worker, reply) ==
    IF reply.transport \in {"failed", "canceled"}
    THEN WorkerResult(worker.ID, id, 0, "HTTP request failed")
    ELSE IF reply.transport = "readfailed"
    THEN WorkerResult(worker.ID, id, 0, "failed to read response body")
    ELSE IF ~Unmarshal(reply.body).ok
    THEN WorkerResult(worker.ID, id, 0, "failed to decode response")
    ELSE [Unmarshal(reply.body).value EXCEPT !.WorkerID = worker.ID, !.RequestID = id]

\* the call to the worker failed: no transport, no readable body, no JSON, or
\* a result that reports the worker's own failure
FailedCall(reply) ==
    \/ reply.transport # "ok"
    \/ ~Unmarshal(reply.body).ok
    \/ Unmarshal(reply.body).value.Err # ""

\* a goroutine that sends nothing when its call failed
DispatchGoroutineDropsFailure(r, w) ==
    /\ topology = "direct"
    /\ w \in DOMAIN goroutines[r]
    /\ goroutines[r][w].pc = "running"
    /\ ~results[r].closed
    /\ \E reply \in CallReplies(r, w) :
         /\ results' = [results EXCEPT ![r].buf =
                IF FailedCall(reply) THEN @
                ELSE Append(@, sendTaskToWorker(reqID[r], workerList[r][w], reply))]
         /\ goroutines' = [goroutines EXCEPT ![r][w] =
                [pc |-> "done", called |-> <<workerList[r][w].Endpoint>>,
                 reply |-> <<reply>>]]
    /\ UNCHANGED <<topology, utilVars, startVars, gateVars, workerVars, aggVars, roundVars, busVars, workers, clock, workerList>>

\* a goroutine that looks its worker's endpoint up in the registry when it runs
DispatchGoroutineReadsRegistry(r, w) ==
    /\ topology = "direct"
    /\ w \in DOMAIN goroutines[r]
    /\ goroutines[r][w].pc = "running"
    /\ Len(results[r].buf) < Cardinality(DOMAIN workerList[r])
    /\ ~results[r].closed
    /\ \E reply \in CallReplies(r, w) :
         /\ results' = [results EXCEPT ![r].buf =
                Append(@, sendTaskToWorker(reqID[r], workers[w], reply))]
         /\ goroutines' = [goroutines EXCEPT ![r][w] =
                [pc |-> "done", called |-> <<workers[w].Endpoint>>,
                 reply |-> <<reply>>]]
    /\ UNCHANGED <<topology, utilVars, startVars, gateVars, workerVars, aggVars, roundVars, busVars, workers, clock, workerList>>

\* the dispatch goroutine for snapshot entry w (lines 278-282): call the
\* worker, send the outcome on results, wg.Done. The channel holds
\* len(workerList) results, so the send finds room.
DispatchGoroutine(r, w) ==
    /\ topology = "direct"
    /\ w \in DOMAIN goroutines[r]
    /\ goroutines[r][w].pc = "running"
    /\ Len(results[r].buf) < Cardinality(DOMAIN workerList[r])
    /\ ~results[r].closed
    /\ \E reply \in CallReplies(r, w) :
         /\ results' = [results EXCEPT ![r].buf =
                Append(@, sendTaskToWorker(reqID[r], workerList[r][w], reply))]
         /\ goroutines' = [goroutines EXCEPT ![r][w] =
                [pc |-> "done", called |-> <<workerList[r][w].Endpoint>>,
                 reply |-> <<reply>>]]
    /\ UNCHANGED <<topology, utilVars, startVars, gateVars, workerVars, aggVars, roundVars, busVars, workers, clock, workerList>>

\* a closing goroutine that does not wait for the dispatch goroutines
CloseResultsWithoutWaiting(r) ==
    /\ topology = "direct"
    /\ DOMAIN goroutines[r] # {}
    /\ ~results[r].closed
    /\ results' = [results EXCEPT ![r].closed = TRUE]
    /\ UNCHANGED <<topology, utilVars, startVars, gateVars, workerVars, aggVars, roundVars, busVars, workers, clock, workerList,
                   goroutines>>

\* the closing goroutine (lines 286-289): wg.Wait(), then close(results)
CloseResults(r) ==
    /\ topology = "direct"
    /\ DOMAIN goroutines[r] # {}
    /\ \A w \in DOMAIN goroutines[r] : goroutines[r][w].pc = "done"
    /\ ~results[r].closed
    /\ results' = [results EXCEPT ![r].closed = TRUE]
    /\ UNCHANGED <<topology, utilVars, startVars, gateVars, workerVars, aggVars, roundVars, busVars, workers, clock, workerList,
                   goroutines>>

\* a collection loop that returns as soon as it finds nothing to receive
DirectCollectReceiveOrGiveUp(r) ==
    /\ topology = "direct"
    /\ pc[r] = "collect"
    /\ IF results[r].buf # <<>>
       THEN /\ workerResults' = [workerResults EXCEPT ![r] =
                   Append(@, Head(results[r].buf))]
            /\ results' = [results EXCEPT ![r].buf = Tail(@)]
            /\ UNCHANGED <<pc, result>>
       ELSE /\ DirectReturn(r, workerResults[r])
            /\ UNCHANGED <<workerResults, results>>
    /\ UNCHANGED <<topology, utilVars, startVars, gateVars, workerVars, aggVars, reqID, response, timeoutFired, ctxDone, busVars,
                   workers, clock, workerList, goroutines>>

\* select case `result, ok := <-results`
DirectCollectReceive(r) ==
    /\ topology = "direct"
    /\ pc[r] = "collect"
    /\ results[r].buf # <<>> \/ results[r].closed
    /\ IF results[r].buf # <<>>
       THEN /\ workerResults' = [workerResults EXCEPT ![r] =
                   Append(@, Head(results[r].buf))]
            /\ results' = [results EXCEPT ![r].buf = Tail(@)]
            /\ UNCHANGED <<pc, result>>
       ELSE /\ DirectReturn(r, workerResults[r])
            /\ UNCHANGED <<workerResults, results>>
    /\ UNCHANGED <<topology, utilVars, startVars, gateVars, workerVars, aggVars, reqID, response, timeoutFired, ctxDone, busVars,
                   workers, clock, workerList, goroutines>>

\* select case `<-timeout`
DirectCollectTimeout(r) ==
    /\ topology = "direct"
    /\ pc[r] = "collect"
    /\ timeoutFired[r]
    /\ DirectReturn(r, workerResults[r])
    /\ UNCHANGED <<topology, utilVars, startVars, gateVars, workerVars, aggVars, reqID, workerResults, response, timeoutFired, ctxDone,
                   busVars, directVars>>

\* select case `<-ctx.Done()`
DirectCollectCtxDone(r) ==
    /\ topology = "direct"
    /\ pc[r] = "collect"
    /\ ctxDone[r]
    /\ DirectReturn(r, workerResults[r])
    /\ UNCHANGED <<topology, utilVars, startVars, gateVars, workerVars, aggVars, reqID, workerResults, response, timeoutFired, ctxDone,
                   busVars, directVars>>

\* a direct handler that answers 503 when the round has no outcome
DirectRespondErrorWhenEmpty(r) ==
    /\ topology = "direct"
    /\ pc[r] = "respond"
    /\ response' = [response EXCEPT ![r] =
           IF Len(result[r][1].WorkerResponses) = 0
           THEN <<HTTPResponse(503, "no workers available", <<>>)>>
           ELSE <<HTTPResponse(200, "", result[r])>>]
    /\ pc' = [pc EXCEPT ![r] = "done"]
    /\ UNCHANGED <<topology, utilVars, startVars, gateVars, workerVars, aggVars, reqID, workerResults, result, timeoutFired, ctxDone,
                   busVars, directVars>>

\* handleRequest after SubmitRequest returned: always 200 with the result
DirectRespond(r) ==
    /\ topology = "direct"
    /\ pc[r] = "respond"
    /\ response' = [response EXCEPT ![r] = <<HTTPResponse(200, "", result[r])>>]
    /\ pc' = [pc EXCEPT ![r] = "done"]
    /\ UNCHANGED <<topology, utilVars, startVars, gateVars, workerVars, aggVars, reqID, workerResults, result, timeoutFired, ctxDone,
                   busVars, directVars>>

\* time.After(3 * time.Second) of the collection loop becomes ready
DirectTimeoutFires(r) ==
    /\ topology = "direct"
    /\ pc[r] = "collect"
    /\ ~timeoutFired[r]
    /\ timeoutFired' = [timeoutFired EXCEPT ![r] = TRUE]
    /\ UNCHANGED <<topology, utilVars, startVars, gateVars, workerVars, aggVars, pc, reqID, workerResults, result, response, ctxDone,
                   busVars, directVars>>

\* the caller's context is cancelled or its deadline passes while the round runs
DirectCtxCancel(r) ==
    /\ topology = "direct"
    /\ pc[r] = "collect"
    /\ ~ctxDone[r]
    /\ ctxDone' = [ctxDone EXCEPT ![r] = TRUE]
    /\ UNCHANGED <<topology, utilVars, startVars, gateVars, workerVars, aggVars, pc, reqID, workerResults, result, response,
                   timeoutFired, busVars, directVars>>

NextDirect ==
    \/ \E w \in WorkerIDs, e \in Endpoints : RegisterWorker(w, e)
    \/ \E r \in DirectRounds :
         \/ DirectHandleRequest(r)
         \/ Dispatch(r)
         \/ DirectCollectReceive(r)
         \/ DirectCollectTimeout(r)
         \/ DirectCollectCtxDone(r)
         \/ DirectRespond(r)
         \/ DirectTimeoutFires(r)
         \/ DirectCtxCancel(r)
         \/ CloseResults(r)
         \/ \E w \in WorkerIDs : DispatchGoroutine(r, w)

\* ------------------------------------------------------- the specification
\* NewCoordinator: aggregator: "average"; no call of the aggregator alone
InitAggregator ==
    /\ aggregator = "average"
    /\ aggInput = <<>>
    /\ finalValue = <<>>
    /\ reliabilityNote = <<>>

Init ==
    /\ topology \in {"bus", "direct"}
    /\ InitUtil
    /\ InitMain
    /\ InitGate
    /\ InitWorkerLog
    /\ InitRounds
    /\ InitBus
    /\ InitDirect
    /\ InitAggregator

Next == NextBus \/ NextDirect

Spec == Init /\ [][Next]_vars

\* --------------------------------------------------- the aggregator alone
\* the values workers report, the strategies a caller can name (any name that
\* is neither "median" nor "majority" takes the default branch) and the
\* outcome lists of at most MaxOutcomes outcomes
AggValues == {Whole(-3), Whole(10), 101, 104, 105, Whole(20), Whole(30)}

Strategies == {"average", "median", "majority", "custom"}

AggOutcomes == {WorkerResult(1, 1, v, e) : v \in AggValues, e \in {"", "worker failed"}}

OutcomeLists == UNION {[1..n -> AggOutcomes] : n \in 0..MaxOutcomes}

\* the two functions AggregateResults of the repository when called alone:
\* "aggregator" is the one with the strategy switch, "averager" the other
Aggregators == {"aggregator", "averager"}

\* a call AggregateResults(results, strategy) is about to be made
InitCall ==
    /\ topology \in Aggregators
    /\ InitUtil
    /\ InitMain
    /\ InitGate
    /\ InitWorkerLog
    /\ InitRounds
    /\ InitBus
    /\ InitDirect
    /\ aggregator \in Strategies
    /\ aggInput \in OutcomeLists
    /\ finalValue = <<>>
    /\ reliabilityNote = <<>>

\* the call returns
Aggregate ==
    /\ topology \in Aggregators
    /\ finalValue = <<>>
    /\ \E v \in IF topology = "aggregator"
                 THEN AggregateResults(aggInput, aggregator)
                 ELSE {AggregateResultsOfAverageOnly(aggInput, aggregator)} :
           finalValue' = <<v>>
    /\ UNCHANGED <<topology, utilVars, startVars, gateVars, workerVars, roundVars, busVars, directVars, aggregator, aggInput,
                   reliabilityNote>>

AggSpec == InitCall /\ [][Aggregate]_vars

\* ---------------------------------------------------- the annotator alone
\* the lists of at most MaxCollected outcomes, each a success or a failure
NoteOutcomes == {WorkerResult(1, 1, Whole(10), e) : e \in {"", "worker failed"}}

CollectedLists == UNION {[1..n -> NoteOutcomes] : n \in 0..MaxCollected}

\* a call calculateReliabilityNote(results) is about to be made
InitNote ==
    /\ topology = "annotator"
    /\ InitUtil
    /\ InitMain
    /\ InitGate
    /\ InitWorkerLog
    /\ InitRounds
    /\ InitBus
    /\ InitDirect
    /\ aggregator = "average"
    /\ aggInput \in CollectedLists
    /\ finalValue = <<>>
    /\ reliabilityNote = <<>>

\* the call returns
Annotate ==
    /\ topology = "annotator"
    /\ reliabilityNote = <<>>
    /\ reliabilityNote' = <<calculateReliabilityNote(aggInput)>>
    /\ UNCHANGED <<topology, utilVars, startVars, gateVars, workerVars, roundVars, busVars, directVars, aggregator, aggInput,
                   finalValue>>

NoteSpec == InitNote /\ [][Annotate]_vars

\* ------------------------------------------------------- the bus worker alone
\* the messages that may lie on oracle.tasks: a request under each id, also
\* the empty one, and text that is no JSON
TaskPool ==
    {TaskMsg(w, id, 1) : w \in Subscribers, id \in RequestIDs \cup {EmptyID}}
        \cup {Garbage(w, 1) : w \in Subscribers}

\* workers are subscribed and some messages have been published to them
InitWorker ==
    /\ topology = "worker"
    /\ InitUtil
    /\ InitMain
    /\ InitGate
    /\ InitWorkerLog
    /\ InitRounds
    /\ pendingReqs = <<>>
    /\ resultChan = [r \in Rounds |-> NoChan]
    /\ tasks \in SUBSET TaskPool
    /\ resultsMsgs = {}
    /\ cb = CbIdle
    /\ lastLog = NoLog
    /\ panicked = FALSE
    /\ InitDirect
    /\ InitAggregator

Work == \E w \in Subscribers : SubscribeTasks(w)

WorkerSpec == InitWorker /\ [][Work]_vars

\* ------------------------------------------- the start-up of a direct worker
\* the worker processes have parsed their flags (-register defaults to true)
InitStart ==
    /\ topology = "startup"
    /\ InitUtil
    /\ main \in [WorkerIDs -> {Main("register", TRUE), Main("register", FALSE)}]
    /\ InitGate
    /\ InitWorkerLog
    /\ InitRounds
    /\ InitBus
    /\ InitDirect
    /\ InitAggregator

\* the registration block of a main that goes on with the loop after a success
RegisterLoopWithoutBreak(w) ==
    /\ topology = "startup"
    /\ main[w].pc = "register"
    /\ IF main[w].register /\ main[w].i < maxRetries
       THEN \E err \in BOOLEAN :
              main' = [main EXCEPT ![w].calls = @ + 1,
                                   ![w].i = @ + 1,
                                   ![w].registered = @ \/ ~err]
       ELSE main' = [main EXCEPT ![w].pc = "start"]
    /\ UNCHANGED <<topology, utilVars, gateVars, workerVars, roundVars, busVars, directVars, aggVars>>

\* main, lines 24-41: with -register, one pass of the loop: call
\* RegisterWithCoordinator, which returns an error when the coordinator cannot
\* be reached or answers another status than 200; on an error count the
\* attempt (and sleep a second before the next), on success set registered
\* and break. Without -register, or when the loop is over, go on.
RegisterLoop(w) ==
    /\ topology = "startup"
    /\ main[w].pc = "register"
    /\ IF main[w].register /\ main[w].i < maxRetries
       THEN \E err \in BOOLEAN :
              IF err
              THEN main' = [main EXCEPT ![w].calls = @ + 1, ![w].i = @ + 1]
              ELSE main' = [main EXCEPT ![w].calls = @ + 1, ![w].registered = TRUE,
                                        ![w].pc = "start"]
       ELSE main' = [main EXCEPT ![w].pc = "start"]
    /\ UNCHANGED <<topology, utilVars, gateVars, workerVars, roundVars, busVars, directVars, aggVars>>

\* main, lines 43-51: log the start and run StartWorkerServer in a goroutine
StartWorkerServer(w) ==
    /\ topology = "startup"
    /\ main[w].pc = "start"
    /\ main' = [main EXCEPT ![w].pc = "wait", ![w].serving = TRUE]
    /\ UNCHANGED <<topology, utilVars, gateVars, workerVars, roundVars, busVars, directVars, aggVars>>

Start == \E w \in WorkerIDs : RegisterLoop(w) \/ StartWorkerServer(w)

StartSpec == InitStart /\ [][Start]_vars

\* every call of RegisterWithCoordinator returns (its HTTP client times out
\* after 5 s) and main runs on
StartFairness == \A w \in WorkerIDs : WF_vars(RegisterLoop(w) \/ StartWorkerServer(w))

StartLiveSpec == StartSpec /\ StartFairness

\* ------------------------------------------------ CalculateReliability alone
\* a call CalculateReliability(successCount, totalCount) is about to be made
\* with two counts
InitReliability ==
    /\ topology = "utils"
    /\ counts \in (0..MaxCount) \X (0..MaxCount)
    /\ reliable = <<>>
    /\ InitMain
    /\ InitGate
    /\ InitWorkerLog
    /\ InitRounds
    /\ InitBus
    /\ InitDirect
    /\ InitAggregator

\* the call returns
Calculate ==
    /\ topology = "utils"
    /\ reliable = <<>>
    /\ reliable' = <<CalculateReliability(counts[1], counts[2])>>
    /\ UNCHANGED <<topology, counts, startVars, gateVars, workerVars, roundVars, busVars,
                   directVars, aggVars>>

ReliabilitySpec == InitReliability /\ [][Calculate]_vars

\* the steps of round r the Go scheduler takes once they can be taken: every
\* statement of the round's goroutine except the receive case of the select,
\* which competes with the timeout and cancellation cases
RoundProgress(r) ==
    \/ RegisterPending(r) \/ PublishTask(r) \/ PublishTaskFails(r)
    \/ CollectTimeout(r) \/ CollectCtxDone(r)
    \/ DeferDelete(r) \/ DeferClose(r) \/ Respond(r)
    \/ Dispatch(r) \/ DirectCollectTimeout(r) \/ DirectCollectCtxDone(r)
    \/ DirectRespond(r)

\* the round timer fires once it is armed
TimerProgress(r) == TimeoutFires(r) \/ DirectTimeoutFires(r)

\* the subscription goroutine handles every result message it was handed
CallbackProgress == HandleWorkerResultLookup \/ HandleWorkerResultSend

\* a dispatch goroutine's HTTP call ends (the client times out after 5 s) and
\* the closing goroutine runs
GoroutineProgress(r) ==
    CloseResults(r) \/ \E w \in WorkerIDs : DispatchGoroutine(r, w)

\* workers and callers are under no obligation: a worker may never answer
Fairness ==
    /\ \A r \in Rounds : WF_vars(RoundProgress(r))
    /\ \A r \in Rounds : WF_vars(TimerProgress(r))
    /\ \A r \in Rounds : WF_vars(GoroutineProgress(r))
    /\ WF_vars(CallbackProgress)

LiveSpec == Spec /\ Fairness

\* the direct coordinator alone, under the same scheduling
InitDirectCoordinator == Init /\ topology = "direct"

DirectSpec == InitDirectCoordinator /\ [][NextDirect]_vars

DirectLiveSpec == DirectSpec /\ Fairness

\* ================================================================= claims
\* every outcome round r holds: collected, or still buffered in its channel
BusHeld(r) == Range(workerResults[r]) \cup Range(resultChan[r].buf)

\* the rounds whose SubmitRequest is between registration and cleanup
InFlight(r) == pc[r] \in {"publish", "collect", "deferDelete"}

\* C1: bus topology, round isolation. Every outcome a round has received on
\* its channel, collected or returned carries that round's RequestID, so a
\* reply tagged with another round's id never reaches it, under every
\* interleaving of overlapping rounds.
C1_RoundIsolation ==
    topology = "bus" =>
        \A r \in Rounds :
            /\ \A o \in BusHeld(r) : o.RequestID = reqID[r]
            /\ result[r] # <<>> =>
                   \A o \in Range(result[r][1].WorkerResponses) : o.RequestID = reqID[r]

\* two rounds with distinct ids overlap and each has collected a reply
C1_Witness ==
    /\ topology = "bus"
    /\ \E r1, r2 \in Rounds :
         /\ reqID[r1] # reqID[r2]
         /\ pc[r1] = "collect" /\ pc[r2] = "collect"
         /\ workerResults[r1] # <<>> /\ workerResults[r2] # <<>>

\* the outcomes of direct round r that left their goroutine
DirectHeld(r) == workerResults[r] \o results[r].buf

DoneGoroutines(r) == {w \in DOMAIN goroutines[r] : goroutines[r][w].pc = "done"}

\* C2: direct topology. A round never holds more outcomes than its snapshot
\* has workers; every outcome carries the round's RequestID and the WorkerID
\* of the snapshot entry whose goroutine produced it, whatever the reply body
\* said and on every failure path.
C2_DirectOutcomesBelongToRound ==
    topology = "direct" =>
        \A r \in DirectRounds :
            /\ Len(DirectHeld(r)) = Cardinality(DoneGoroutines(r))
            /\ {o.WorkerID : o \in Range(DirectHeld(r))} = DoneGoroutines(r)
            /\ \A o \in Range(DirectHeld(r)) : o.RequestID = reqID[r]
            /\ result[r] # <<>> =>
                 /\ Len(result[r][1].WorkerResponses) <= Cardinality(DOMAIN workerList[r])
                 /\ \A o \in Range(result[r][1].WorkerResponses) :
                        /\ o.RequestID = reqID[r]
                        /\ o.WorkerID \in DoneGoroutines(r)

\* a round returned an outcome whose reply body named another worker and
\* another request, next to an outcome of a failed call
C2_Witness ==
    /\ topology = "direct"
    /\ \E r \in DirectRounds, w1, w2 \in WorkerIDs :
         /\ result[r] # <<>>
         /\ Len(result[r][1].WorkerResponses) = 2
         /\ w1 \in DoneGoroutines(r) /\ w2 \in DoneGoroutines(r)
         /\ goroutines[r][w1].reply[1].body.kind = "result"
         /\ goroutines[r][w1].reply[1].body.worker_id # w1
         /\ goroutines[r][w1].reply[1].body.request_id # reqID[r]
         /\ goroutines[r][w2].reply[1].transport = "failed"

\* C3: bus topology. Once the cleanup of a round has run, pendingReqs no
\* longer maps the round's id to the round's channel, on every exit path; and
\* whenever no round is in flight pendingReqs is empty.
C3_CorrelationTornDown ==
    topology = "bus" =>
        /\ \A r \in Rounds :
             pc[r] \in {"deferClose", "respond", "done"} =>
                 r \notin LookupPending(reqID[r])
        /\ (\A r \in Rounds : ~InFlight(r)) => DOMAIN pendingReqs = {}

\* all rounds are over: one ended by a publish failure, one by its timeout
C3_Witness ==
    /\ topology = "bus"
    /\ \A r \in Rounds : pc[r] = "done"
    /\ \E r \in Rounds : result[r] # <<>> /\ result[r][1].ReliabilityNote = <<"Failed to publish task">>
    /\ \E r \in Rounds : result[r] # <<>> /\ timeoutFired[r] /\ workerResults[r] # <<>>
    /\ DOMAIN pendingReqs = {}

\* the round's SubmitRequest has been entered and has not returned
Started(r) == pc[r] \in {"submit", "publish", "collect", "deferDelete", "deferClose"}

\* SubmitRequest of round r has returned its result to the handler
Returned(r) == pc[r] \in {"respond", "done"} /\ result[r] # <<>>

\* C4: in both topologies every round that was started eventually returns
\* from SubmitRequest with its result, whatever workers and callers do.
C4_EveryRoundReturns ==
    \A r \in Rounds : Started(r) ~> Returned(r)

\* every started round returns or the coordinator process has died: the one
\* way a round stays without a result is the panic of handleWorkerResult
ReturnsUnlessPanicked ==
    \A r \in Rounds : Started(r) ~> (Returned(r) \/ panicked)

\* the outcomes that have landed in round r's channel and wait to be received
Landed(r) ==
    IF topology = "bus" THEN Range(resultChan[r].buf) ELSE Range(results[r].buf)

\* C5: no outcome that has landed in a round's channel is discarded: when the
\* collection loop of the round stops, every outcome waiting in the channel is
\* part of the result the round returns.
C5_NoLandedOutcomeDiscarded ==
    [][\A r \in Rounds :
          (pc[r] = "collect" /\ pc'[r] # "collect") =>
              \A o \in Landed(r) : o \in Range(result'[r][1].WorkerResponses)]_vars

\* the rounds that were given request id `id`
RoundsOf(id) == {r \in Rounds : pc[r] # "idle" /\ reqID[r] = id}

\* every round of request id `id` has run the delete of its cleanup
Ended(id) ==
    /\ RoundsOf(id) # {}
    /\ \A r \in RoundsOf(id) : pc[r] \in {"deferClose", "respond", "done"}

\* C6: bus topology. A reply handed to handleWorkerResult for a request id
\* whose rounds have all ended is discarded: no map entry, no channel and no
\* round changes, nothing is held for sending and the process lives on.
C6_LateReplyDiscarded ==
    [][\A m \in resultsMsgs :
          (topology = "bus" /\ m \notin resultsMsgs' /\ Ended(m.res.RequestID)) =>
              /\ pendingReqs' = pendingReqs
              /\ resultChan' = resultChan
              /\ roundVars' = roundVars
              /\ cb' = CbIdle
              /\ panicked' = panicked]_vars

\* the reply of a round that ended without it was handed over after the end
\* and logged as a reply to an unknown request
C6_Witness ==
    /\ topology = "bus"
    /\ lastLog.event = "unknown request"
    /\ \A r1, r2 \in Rounds : r1 # r2 => reqID[r1] # reqID[r2]
    /\ \E r \in Rounds :
         /\ reqID[r] = lastLog.id
         /\ pc[r] = "done"
         /\ timeoutFired[r]
         /\ result[r] # <<>> /\ result[r][1].WorkerResponses = <<>>
    /\ pendingReqs = <<>>
    /\ ~panicked

\* the round's result was built by a failed publish, not by the collection loop
PublishFailed(r) ==
    result[r] # <<>> /\ result[r][1].ReliabilityNote = <<"Failed to publish task">>

\* C7: the result of a round is built once, after its collection loop has
\* stopped, from the list of collected outcomes and nothing else: the final
\* value is the aggregate of that list, the note its annotation, and neither
\* the list nor the result changes afterwards, whatever arrives later.
C7_ResultFromCollectedOnce ==
    [][\A r \in Rounds :
          /\ (result'[r] # <<>>) =>
                /\ pc'[r] \in {"deferDelete", "deferClose", "respond", "done"}
                /\ result'[r][1].WorkerResponses = workerResults'[r]
                /\ result'[r][1].FinalValue \in AggregateResults(workerResults'[r], "average")
                /\ result'[r][1].RequestID = reqID'[r]
                /\ ~PublishFailed(r)' =>
                      result'[r][1].ReliabilityNote = calculateReliabilityNote(workerResults'[r])
          /\ (result[r] # <<>>) =>
                /\ result'[r] = result[r]
                /\ workerResults'[r] = workerResults[r]]_vars

\* a direct round returned one outcome and a second one arrived afterwards
C7_Witness ==
    /\ topology = "direct"
    /\ \E r \in DirectRounds :
         /\ pc[r] = "done"
         /\ result[r] # <<>>
         /\ Len(result[r][1].WorkerResponses) = 1
         /\ result[r][1].WorkerResponses[1].Err = ""
         /\ results[r].buf # <<>>
         /\ results[r].buf[1].Err = ""

\* the reply a dispatch goroutine of round r got from worker w
ReplyOf(r, w) == goroutines[r][w].reply[1]

\* C8: direct topology. A call that fails in transport, is answered with a
\* status outside 200..299, or carries a body that does not decode yields an
\* outcome with a non-empty Err.
C8_FailedCallYieldsErr ==
    topology = "direct" =>
        \A r \in DirectRounds :
            \A o \in Range(DirectHeld(r)) :
                (\/ ReplyOf(r, o.WorkerID).transport # "ok"
                 \/ ReplyOf(r, o.WorkerID).status \notin 200..299
                 \/ ~Unmarshal(ReplyOf(r, o.WorkerID).body).ok)
                    => o.Err # ""

AnsweredAfterDeadline(r) ==
    pc[r] = "done" /\ timeoutFired[r] /\ result[r] # <<>> /\ ~PublishFailed(r)

\* C10 as stated: a round that ends because its deadline elapsed is no error;
\* the caller of the request endpoint receives the round's result and no error
\* response.
C10_TimedOutRoundIsAnswered ==
    \A r \in Rounds :
        AnsweredAfterDeadline(r) => response[r] = <<HTTPResponse(200, "", result[r])>>

\* C10: a round that ends because its deadline elapsed returns a normal result
\* built from what was collected, and the caller receives that result, except
\* that the bus coordinator answers 503 "no workers available" when the round
\* collected no outcome at all.
C10_TimedOutRoundAnsweredUnlessEmpty ==
    \A r \in Rounds :
        AnsweredAfterDeadline(r) =>
            /\ result[r][1] = aggregateResults(reqID[r], workerResults[r])
            /\ response[r] =
                   IF topology = "bus" /\ result[r][1].WorkerResponses = <<>>
                   THEN <<HTTPResponse(503, "no workers available", <<>>)>>
                   ELSE <<HTTPResponse(200, "", result[r])>>

\* a bus round timed out with one failed outcome collected and was answered
\* with its result
C10_Witness ==
    /\ topology = "bus"
    /\ \E r \in Rounds :
         /\ AnsweredAfterDeadline(r)
         /\ ~ctxDone[r]
         /\ Len(result[r][1].WorkerResponses) = 1
         /\ result[r][1].WorkerResponses[1].Err # ""
         /\ response[r] = <<HTTPResponse(200, "", result[r])>>

\* round r leaves its publish step and no task of it is on the bus
PublishFails(r) ==
    /\ topology = "bus"
    /\ pc[r] = "publish" /\ pc'[r] # "publish"
    /\ \A w \in Subscribers : TaskMsg(w, reqID[r], r) \notin tasks'

\* C11: bus topology. When publishing the task fails, SubmitRequest returns at
\* once with FinalValue 0, no outcomes and a note naming the publish failure,
\* which is not the annotator's note for an empty list; the round never waits
\* for its timeout and its cleanup still releases the correlation entry.
C11_PublishFailureShortCircuits ==
    [][\A r \in Rounds :
          /\ PublishFails(r) =>
                /\ result'[r] = <<OracleResult(reqID[r], <<0, 1>>, <<>>,
                                               <<"Failed to publish task">>)>>
                /\ pc'[r] = "deferDelete"
          /\ PublishFailed(r) =>
                /\ result[r][1].ReliabilityNote # calculateReliabilityNote(<<>>)
                /\ workerResults[r] = <<>>
                /\ ~timeoutFired[r] /\ ~timeoutFired'[r]
                /\ pc[r] \in {"deferDelete", "deferClose", "respond", "done"}
                /\ pc[r] \in {"deferClose", "respond", "done"} =>
                       r \notin LookupPending(reqID[r])]_vars

\* a round whose publish failed has returned and been answered while the other
\* round, published under another id, is still collecting; only that round's
\* entry is left in the map
C11_Witness ==
    /\ topology = "bus"
    /\ \E r1, r2 \in Rounds :
         /\ PublishFailed(r1) /\ pc[r1] = "done"
         /\ ~timeoutFired[r1]
         /\ pc[r2] = "collect" /\ reqID[r2] # reqID[r1]
         /\ DOMAIN pendingReqs = {reqID[r2]}

\* round r was answered and its result holds no successful outcome
AnsweredWithoutSuccess(r) ==
    /\ pc[r] = "done"
    /\ result[r] # <<>>
    /\ CountSuccess(result[r][1].WorkerResponses) = 0

\* C12 as stated: a round in which no outcome is successful is answered with
\* an error response and not with a result.
C12_NoSuccessIsAnError ==
    \A r \in Rounds :
        AnsweredWithoutSuccess(r) =>
            /\ response[r][1].code # 200
            /\ response[r][1].error # ""

\* C12: a round in which no outcome is successful is answered with the error
\* 503 "no workers available" only by the bus coordinator and only when the
\* round holds no outcome at all; otherwise the caller receives, with status
\* 200, the result with FinalValue 0 and the note of the annotator.
C12_NoSuccessIsAnErrorOnlyWhenEmptyOnBus ==
    \A r \in Rounds :
        AnsweredWithoutSuccess(r) =>
            IF topology = "bus" /\ result[r][1].WorkerResponses = <<>>
            THEN response[r] = <<HTTPResponse(503, "no workers available", <<>>)>>
            ELSE /\ response[r] = <<HTTPResponse(200, "", result[r])>>
                 /\ result[r][1].FinalValue = <<0, 1>>
                 /\ result[r][1].ReliabilityNote =
                        IF result[r][1].WorkerResponses = <<>>
                        THEN <<"No workers responded">>
                        ELSE <<"Low reliability", 0, Len(result[r][1].WorkerResponses)>>

\* a direct round whose two calls both failed was answered 200 with its result
C12_Witness ==
    /\ topology = "direct"
    /\ \E r \in DirectRounds :
         /\ AnsweredWithoutSuccess(r)
         /\ Len(result[r][1].WorkerResponses) = 2
         /\ response[r] = <<HTTPResponse(200, "", result[r])>>

\* direct round r has taken its snapshot and found no worker in it
DispatchedToNobody(r) ==
    /\ topology = "direct"
    /\ pc[r] = "collect" \/ result[r] # <<>>
    /\ DOMAIN workerList[r] = {}

\* C13: direct topology with an empty registry. SubmitRequest starts no call
\* and no timer and returns in the same step the zero-value result: FinalValue
\* 0, no outcomes, note "No workers responded".
C13_EmptyRegistryShortCircuits ==
    [][\A r \in DirectRounds :
          /\ (topology = "direct" /\ pc[r] = "submit" /\ pc'[r] # "submit"
                 /\ DOMAIN workers = {}) =>
                /\ pc'[r] = "respond"
                /\ result'[r] = <<OracleResult(reqID[r], <<0, 1>>, <<>>,
                                               <<"No workers responded">>)>>
          /\ DispatchedToNobody(r) =>
                /\ pc[r] \in {"respond", "done"}
                /\ goroutines[r] = <<>>
                /\ results[r].buf = <<>>
                /\ ~timeoutFired[r] /\ ~timeoutFired'[r]
                /\ result[r][1] = aggregateResults(reqID[r], <<>>)]_vars

\* a round found the registry empty and was answered with the zero-value
\* result; a worker registered only afterwards
C13_Witness ==
    /\ topology = "direct"
    /\ \E r \in DirectRounds :
         /\ DispatchedToNobody(r)
         /\ pc[r] = "done"
         /\ result[r][1].FinalValue = <<0, 1>>
         /\ result[r][1].ReliabilityNote = <<"No workers responded">>
         /\ response[r] = <<HTTPResponse(200, "", result[r])>>
         /\ DOMAIN workers # {}

\* the handler answered round r without calling SubmitRequest: the body did
\* not bind
Malformed(r) == pc[r] = "done" /\ result[r] = <<>>

\* no worker existed for round r to try: nobody subscribed to the task subject
\* (bus), nobody in the registry snapshot (direct)
NoWorkersToTry(r) ==
    IF topology = "bus" THEN Subscribers = {} ELSE DispatchedToNobody(r)

\* C14 as stated: the caller receives the result in every case except two,
\* a malformed request and a round with no workers to try, and in exactly
\* these two an error; in both topologies.
C14_ErrorOnlyIfMalformedOrNoWorkers ==
    \A r \in Rounds :
        pc[r] = "done" =>
            IF Malformed(r) \/ NoWorkersToTry(r)
            THEN response[r][1].code # 200 /\ response[r][1].error # ""
            ELSE response[r] = <<HTTPResponse(200, "", result[r])>>

\* C14: the caller receives the result with status 200 in every case except
\* two: a malformed request is answered 400, and the bus coordinator answers
\* 503 "no workers available" for a round that holds no outcome. The direct
\* coordinator answers a round that found no worker with its zero-value result.
C14_ErrorOnlyIfMalformedOrEmptyOnBus ==
    \A r \in Rounds :
        pc[r] = "done" =>
            response[r] =
                IF Malformed(r)
                THEN IF topology = "bus"
                     THEN <<HTTPResponse(400, "invalid request", <<>>)>>
                     ELSE <<HTTPResponse(400, "bind error", <<>>)>>
                ELSE IF topology = "bus" /\ result[r][1].WorkerResponses = <<>>
                THEN <<HTTPResponse(503, "no workers available", <<>>)>>
                ELSE <<HTTPResponse(200, "", result[r])>>

\* the bus coordinator has answered a malformed request with 400 and a round
\* that timed out without a reply with 503, although a worker is subscribed
C14_Witness ==
    /\ topology = "bus"
    /\ Subscribers # {}
    /\ \E r1, r2 \in Rounds :
         /\ Malformed(r1) /\ response[r1][1].code = 400
         /\ pc[r2] = "done" /\ timeoutFired[r2] /\ ~PublishFailed(r2)
         /\ result[r2] # <<>>
         /\ response[r2][1].code = 503

\* C15: the registry holds at most one record per WorkerID, each under its own
\* id; a registration always takes effect: afterwards the registry holds for
\* that worker exactly the record of this registration, with its endpoint and
\* its time as LastSeen, and the records of the other workers are as before.
C15_RegistryUpsert ==
    [][/\ \A k \in DOMAIN workers :
             /\ workers[k].ID = k
             /\ workers[k].LastSeen \in 1..clock
       /\ clock' # clock =>
             \E w \in WorkerIDs, e \in Endpoints :
                 /\ DOMAIN workers' = DOMAIN workers \cup {w}
                 /\ workers'[w] = WorkerInfo(w, e, clock')
                 /\ \A k \in DOMAIN workers' \ {w} : workers'[k] = workers[k]]_vars

\* a worker registered twice with different endpoints: a round still holds the
\* first record in its snapshot, the registry holds one record, with the
\* second endpoint and the second time
C15_Witness ==
    /\ topology = "direct"
    /\ \E r \in DirectRounds, w \in WorkerIDs :
         /\ DOMAIN workers = {w}
         /\ w \in DOMAIN workerList[r]
         /\ workerList[r][w].LastSeen = 1
         /\ workers[w].LastSeen = 2
         /\ workers[w].Endpoint # workerList[r][w].Endpoint

\* direct round r has taken its snapshot
Dispatched(r) ==
    topology = "direct" /\ (pc[r] = "collect" \/ result[r] # <<>>)

\* C16: direct topology. The targets of a round are exactly the records of the
\* registry at the step that takes the snapshot; each is called at most once,
\* at the endpoint of its snapshot record; a registration while the round is
\* in flight changes neither the snapshot nor the set of calls.
C16_FanOutIsTheSnapshot ==
    [][\A r \in DirectRounds :
          /\ (topology = "direct" /\ pc[r] = "submit" /\ pc'[r] # "submit") =>
                /\ workerList'[r] = workers
                /\ DOMAIN goroutines'[r] = DOMAIN workers
                /\ \A w \in DOMAIN goroutines'[r] : goroutines'[r][w] = GoRunning
          /\ Dispatched(r) =>
                /\ DOMAIN goroutines[r] = DOMAIN workerList[r]
                /\ \A w \in DoneGoroutines(r) :
                       /\ goroutines[r][w].called = <<workerList[r][w].Endpoint>>
                       /\ goroutines'[r][w] = goroutines[r][w]
                /\ workerList'[r] = workerList[r]
                /\ DOMAIN goroutines'[r] = DOMAIN goroutines[r]
          /\ clock' # clock =>
                workerList' = workerList /\ goroutines' = goroutines]_vars

\* while a round was in flight its only target registered again under another
\* endpoint; the round's call went to the endpoint of the snapshot
C16_Witness ==
    /\ topology = "direct"
    /\ \E r \in DirectRounds, w \in WorkerIDs :
         /\ Dispatched(r)
         /\ DOMAIN workerList[r] = {w}
         /\ w \in DoneGoroutines(r)
         /\ w \in DOMAIN workers
         /\ workers[w].Endpoint # workerList[r][w].Endpoint
         /\ goroutines[r][w].called = <<workerList[r][w].Endpoint>>
         /\ workers[w].LastSeen > workerList[r][w].LastSeen

\* the registry holds the record worker w registered at time t
HasRecord(w, t) ==
    topology = "direct" /\ w \in DOMAIN workers /\ workers[w].LastSeen = t

\* C17: staleness eviction. A record is not kept forever as it is: a worker
\* that stops registering, so that its LastSeen grows older than every
\* threshold, is eventually removed from the registry.
C17_StaleRecordEventuallyEvicted ==
    \A w \in WorkerIDs, t \in 1..MaxRegistrations :
        HasRecord(w, t) ~> ~HasRecord(w, t)

\* the list without its failed outcomes
WithoutFailed(list) == SelectSeq(list, LAMBDA o : o.Err = "")

\* C18: for every strategy and every outcome list, the failed outcomes do not
\* influence the result: the call can return over the list exactly what it can
\* return over the list without them, what it returned is among these, and it
\* returns 0 when no outcome of the list is successful.
C18_FailedOutcomesDoNotCount ==
    topology = "aggregator" =>
        /\ AggregateResults(aggInput, aggregator)
               = AggregateResults(WithoutFailed(aggInput), aggregator)
        /\ finalValue # <<>> =>
               /\ finalValue[1] \in AggregateResults(WithoutFailed(aggInput), aggregator)
               /\ WithoutFailed(aggInput) = <<>> => finalValue[1] = <<0, 1>>

\* a median was returned for three outcomes of which the failed one carries
\* the largest value
C18_Witness ==
    /\ topology = "aggregator"
    /\ aggregator = "median"
    /\ Len(aggInput) = 3
    /\ aggInput[1].Value = Whole(10) /\ aggInput[1].Err = ""
    /\ aggInput[2].Value = Whole(30) /\ aggInput[2].Err # ""
    /\ aggInput[3].Value = Whole(20) /\ aggInput[3].Err = ""
    /\ finalValue = <<Frac(Whole(15), 1)>>

\* the sum of the values of the first n outcomes of a list
RECURSIVE SumOfFirst(_, _)
SumOfFirst(list, n) ==
    IF n = 0 THEN 0 ELSE list[n].Value + SumOfFirst(list, n - 1)

\* the strategies that reach aggregateAverage
Averaging == Strategies \ {"median", "majority"}

\* C19: aggregateAverage returns the arithmetic mean of the values of the
\* successful outcomes: the returned fraction times their count is their sum,
\* the failed outcomes counting in neither; 10 and 20 give 15.
C19_AverageIsTheMean ==
    (topology = "aggregator" /\ aggregator \in Averaging /\ finalValue # <<>>) =>
        LET ok == WithoutFailed(aggInput)
            num == finalValue[1][1]
            den == finalValue[1][2]
        IN  /\ den > 0
            /\ ok # <<>> => num * Len(ok) = SumOfFirst(ok, Len(ok)) * den
            /\ ok = <<>> => num = 0
            /\ (Len(ok) = 2 /\ ok[1].Value = Whole(10) /\ ok[2].Value = Whole(20)) =>
                   finalValue[1] = <<Whole(15), 1>>

\* the average 15 was returned for the successful values 10 and 20 and a
\* failed outcome of value 30 between them
C19_Witness ==
    /\ topology = "aggregator"
    /\ aggregator = "average"
    /\ Len(aggInput) = 3
    /\ aggInput[1].Value = Whole(10) /\ aggInput[1].Err = ""
    /\ aggInput[2].Value = Whole(30) /\ aggInput[2].Err # ""
    /\ aggInput[3].Value = Whole(20) /\ aggInput[3].Err = ""
    /\ finalValue = <<(<<Whole(15), 1>>)>>

\* the k-th smallest value of the outcomes of a list, k in 1..Len(list)
KthSmallest(list, k) ==
    CHOOSE v \in {list[i].Value : i \in DOMAIN list} :
        /\ Cardinality({i \in DOMAIN list : list[i].Value < v}) < k
        /\ Cardinality({i \in DOMAIN list : list[i].Value <= v}) >= k

\* C20: aggregateMedian returns, whatever the order of the list, the middle
\* one of the successful values in ascending order when their count is odd
\* and the mean of the two middle ones when it is even; 10, 20, 30 in any
\* order give 20, and 10, 20 give 15.
C20_MedianIsTheMiddle ==
    (topology = "aggregator" /\ aggregator = "median" /\ finalValue # <<>>) =>
        LET ok == WithoutFailed(aggInput)
            n == Len(ok)
            num == finalValue[1][1]
            den == finalValue[1][2]
        IN  /\ den > 0
            /\ n = 0 => num = 0
            /\ (n > 0 /\ n % 2 = 1) => num = KthSmallest(ok, (n + 1) \div 2) * den
            /\ (n > 0 /\ n % 2 = 0) =>
                   2 * num = (KthSmallest(ok, n \div 2) + KthSmallest(ok, (n \div 2) + 1)) * den
            /\ {ok[i].Value : i \in 1..n} = {Whole(10), Whole(20), Whole(30)} /\ n = 3 =>
                   finalValue[1] = <<Whole(20), 1>>
            /\ {ok[i].Value : i \in 1..n} = {Whole(10), Whole(20)} /\ n = 2 =>
                   finalValue[1] = <<Whole(15), 1>>

\* the median 20 was returned for the successful values 30, 10, 20 in this
\* order
C20_Witness ==
    /\ topology = "aggregator"
    /\ aggregator = "median"
    /\ Len(aggInput) = 3
    /\ \A i \in 1..3 : aggInput[i].Err = ""
    /\ aggInput[1].Value = Whole(30) /\ aggInput[2].Value = Whole(10)
    /\ aggInput[3].Value = Whole(20)
    /\ finalValue = <<(<<Whole(20), 1>>)>>

\* integer b is a nearest integer of value v: |v - b| <= 1/2
IsNearest(b, v) == 2 * Abs(v - Whole(b)) <= 10

\* the bucket of the i-th value of a list when the values whose index is in
\* `up` go to the integer above them and the others to the one below or equal
BucketOf(list, up, i) ==
    IF i \in up THEN (list[i].Value \div 10) + 1 ELSE list[i].Value \div 10

\* the ways of rounding every value of a list to a nearest integer (a value
\* half-way between two integers may go either way)
Roundings(list) ==
    {up \in SUBSET (DOMAIN list) :
        \A i \in DOMAIN list : IsNearest(BucketOf(list, up, i), list[i].Value)}

\* v is a bucket with the most votes of list under the rounding `up`
IsLargestBucket(v, list, up) ==
    \E i \in DOMAIN list :
        /\ v = <<Whole(BucketOf(list, up, i)), 1>>
        /\ \A j \in DOMAIN list :
               Cardinality({k \in DOMAIN list : BucketOf(list, up, k) = BucketOf(list, up, j)})
                   <= Cardinality({k \in DOMAIN list : BucketOf(list, up, k) = BucketOf(list, up, i)})

\* a majority vote over the outcomes `ok` returned v
MajorityReturned(ok) ==
    /\ topology = "aggregator" /\ aggregator = "majority" /\ finalValue # <<>>
    /\ ok = WithoutFailed(aggInput)
    /\ ok # <<>>

\* C21: aggregateMajorityVote returns a bucket with the most votes, the
\* bucket of a value being its nearest integer: a bucket with strictly more
\* votes than every other is the result, on a tie one of the tied buckets is;
\* 10.1, 10.4 and 20.0 give 10.
C21_MajorityIsALargestBucket ==
    \A ok \in {WithoutFailed(aggInput)} :
        MajorityReturned(ok) =>
            /\ \E up \in Roundings(ok) : IsLargestBucket(finalValue[1], ok, up)
            /\ {ok[i].Value : i \in DOMAIN ok} = {101, 104, Whole(20)} /\ Len(ok) = 3 =>
                   finalValue[1] = <<Whole(10), 1>>

\* the same for the lists whose successful values are all 0 or more
MajorityIsALargestBucketUnlessNegative ==
    \A ok \in {WithoutFailed(aggInput)} :
        (MajorityReturned(ok) /\ \A i \in DOMAIN ok : ok[i].Value >= 0) =>
            \E up \in Roundings(ok) : IsLargestBucket(finalValue[1], ok, up)

\* C22: strategy selection. A call of AggregateResults returns the median
\* aggregation for "median", the majority aggregation for "majority" and the
\* average aggregation for every other name, whichever of the two
\* AggregateResults of the repository is called.
C22_StrategyIsSelected ==
    (topology \in Aggregators /\ finalValue # <<>>) =>
        IF aggregator = "median" THEN finalValue[1] = aggregateMedian(aggInput)
        ELSE IF aggregator = "majority" THEN finalValue[1] \in aggregateMajorityVote(aggInput)
        ELSE finalValue[1] = aggregateAverage(aggInput)

\* the same for the AggregateResults that has the strategy switch
StrategyIsSelectedBySwitch ==
    (topology = "aggregator" /\ finalValue # <<>>) =>
        IF aggregator = "median" THEN finalValue[1] = aggregateMedian(aggInput)
        ELSE IF aggregator = "majority" THEN finalValue[1] \in aggregateMajorityVote(aggInput)
        ELSE finalValue[1] = aggregateAverage(aggInput)

\* the number of outcomes of a list that carry no error
Successes(list) == Cardinality({i \in DOMAIN list : list[i].Err = ""})

\* C23: for X successful outcomes out of Y, calculateReliabilityNote returns
\* "No workers responded" iff Y = 0, otherwise "All workers responded
\* successfully" iff 5X >= 4Y, "Partial response: X/Y" iff 2X >= Y and
\* 5X < 4Y, and "Low reliability: only X/Y" iff 2X < Y; 4 of 5 is in the
\* first band, 2 of 4 in the second, 1 of 4 in the third.
C23_ReliabilityBands ==
    (topology = "annotator" /\ reliabilityNote # <<>>) =>
        LET x == Successes(aggInput)
            y == Len(aggInput)
            note == reliabilityNote[1]
        IN  /\ (note = <<"No workers responded">>) <=> (y = 0)
            /\ (note = <<"All workers responded successfully">>) <=> (y > 0 /\ 5 * x >= 4 * y)
            /\ (note = <<"Partial response", x, y>>) <=> (y > 0 /\ 2 * x >= y /\ 5 * x < 4 * y)
            /\ (note = <<"Low reliability", x, y>>) <=> (y > 0 /\ 2 * x < y)
            /\ (x = 4 /\ y = 5) => note = <<"All workers responded successfully">>
            /\ (x = 2 /\ y = 4) => note = <<"Partial response", 2, 4>>
            /\ (x = 1 /\ y = 4) => note = <<"Low reliability", 1, 4>>

\* the note for four successes among five outcomes was returned
C23_Witness ==
    /\ topology = "annotator"
    /\ Len(aggInput) = 5
    /\ Successes(aggInput) = 4
    /\ aggInput[3].Err # ""
    /\ reliabilityNote = <<(<<"All workers responded successfully">>)>>

\* the handler of round r has bound the request and called SubmitRequest
Submitted(r) == pc[r] # "idle" /\ ~Malformed(r)

\* C24: every round runs under a non-empty RequestID. The handler assigns one
\* when the request has none, before the round registers its channel and
\* before any task or call goes out; the id never changes afterwards and the
\* result carries it.
C24_RoundHasRequestID ==
    [][/\ \A r \in Rounds :
             /\ Submitted(r) => reqID[r] # EmptyID /\ reqID'[r] = reqID[r]
             /\ ~Submitted(r) =>
                    /\ r \notin {pendingReqs[k] : k \in DOMAIN pendingReqs}
                    /\ \A t \in tasks : t.n # r
                    /\ goroutines[r] = <<>>
             /\ result[r] # <<>> => result[r][1].RequestID = reqID[r]
       /\ EmptyID \notin DOMAIN pendingReqs
       /\ \A t \in tasks : t.ID # EmptyID
       /\ \A m \in resultsMsgs : m.res.RequestID # EmptyID]_vars

\* a request without id was given a generated id; its round is registered
\* under it and its task is on the bus with it
C24_Witness ==
    /\ topology = "bus"
    /\ \E r \in Rounds :
         /\ pc[r] = "collect"
         /\ reqID[r] = GenerateRequestID(r)
         /\ reqID[r] \in DOMAIN pendingReqs /\ pendingReqs[reqID[r]] = r
         /\ \E t \in tasks : t.n = r /\ t.ID = reqID[r]

\* every target of direct round r has delivered its outcome and the round has
\* received them all
AllDelivered(r) ==
    /\ topology = "direct"
    /\ results[r].closed /\ results[r].buf = <<>>
    /\ \A w \in DOMAIN goroutines[r] : goroutines[r][w].pc = "done"
    /\ Len(workerResults[r]) = Cardinality(DOMAIN goroutines[r])

\* the collection loop of round r returns in this step
EndsCollection(r) == pc[r] = "collect" /\ pc'[r] # "collect"

\* C25: collection ends at the first of three events and at no other time: in
\* the direct topology once every dispatched target has delivered its outcome,
\* and then without waiting for the timeout; otherwise when the round timeout
\* has fired or the caller's context is cancelled. Before one of these the
\* round does not return.
C25_CollectionEndsOnOneOfThree ==
    [][\A r \in Rounds :
          /\ EndsCollection(r) => AllDelivered(r) \/ timeoutFired[r] \/ ctxDone[r]
          /\ (pc[r] = "collect" /\ AllDelivered(r)) =>
                 ENABLED (DirectCollectReceive(r) /\ pc'[r] # "collect")
          /\ (pc[r] = "collect" /\ ~AllDelivered(r) /\ ~timeoutFired[r] /\ ~ctxDone[r]) =>
                 result[r] = <<>>]_vars

\* a direct round returned with every outcome, no timeout and no cancellation
C25_Witness ==
    /\ topology = "direct"
    /\ \E r \in Rounds :
         /\ pc[r] = "done" /\ result[r] # <<>>
         /\ ~timeoutFired[r] /\ ~ctxDone[r]
         /\ AllDelivered(r)
         /\ Len(result[r][1].WorkerResponses) = NWorkers

\* the call of direct round r to worker w ended on its own account: the
\* endpoint answered or the call failed, and not because the round's context
\* was done
HeardFrom(r, w) ==
    /\ w \in DOMAIN goroutines[r]
    /\ goroutines[r][w].pc = "done"
    /\ ReplyOf(r, w) # Canceled

\* every outcome of a returned direct round is what sendTaskToWorker made of
\* the end of a call of that round
OutcomesAreOfEndedCalls ==
    \A r \in Rounds :
        (topology = "direct" /\ result[r] # <<>>) =>
            \A i \in DOMAIN result[r][1].WorkerResponses :
                LET o == result[r][1].WorkerResponses[i]
                IN  /\ o.WorkerID \in DOMAIN goroutines[r]
                    /\ goroutines[r][o.WorkerID].pc = "done"
                    /\ o = sendTaskToWorker(reqID[r], workerList[r][o.WorkerID],
                                            ReplyOf(r, o.WorkerID))

\* C26: workers that have not answered when the round closes are absent: every
\* outcome in WorkerResponses is the reply, or the classified failure, of a
\* call to that worker that ended before the window closed; none is made up
\* for a worker that was dispatched to and not heard from, also when the
\* round ends by the caller's cancellation.
C26_NoOutcomeForUnheardWorker ==
    \A r \in Rounds :
        (topology = "direct" /\ result[r] # <<>>) =>
            \A i \in DOMAIN result[r][1].WorkerResponses :
                HeardFrom(r, result[r][1].WorkerResponses[i].WorkerID)

\* no two entries of the list carry the same WorkerID
OnePerWorker(list) ==
    \A i, j \in DOMAIN list : list[i].WorkerID = list[j].WorkerID => i = j

\* C27: each worker contributes at most one outcome to a round: in every
\* Aggregated Result, of either topology, no two entries of WorkerResponses
\* carry the same WorkerID.
C27_OneOutcomePerWorker ==
    \A r \in Rounds : result[r] # <<>> => OnePerWorker(result[r][1].WorkerResponses)

\* the same holds for every round of the direct topology, and for a bus round
\* that ran under an id no other round has used
OneOutcomePerWorkerUnderOwnID ==
    \A r \in Rounds :
        (result[r] # <<>> /\ (topology = "direct" \/
                              \A r2 \in Rounds \ {r} : reqID[r2] # reqID[r])) =>
            OnePerWorker(result[r][1].WorkerResponses)

\* C29: rate limiting on the bus coordinator's HTTP API. A request that the
\* per-IP limiter rejects is answered with a 429 structured error and is not
\* processed any further: the /request handler does not run for it, no task
\* is published and no round is started.
C29_RejectedRequestIsNotProcessed ==
    \A r \in Rounds :
        rejected[r] # <<>> =>
            /\ rejected[r][1].code = 429
            /\ reqID[r] = EmptyID
            /\ response[r] = <<>> /\ result[r] = <<>>
            /\ r \notin {pendingReqs[k] : k \in DOMAIN pendingReqs}
            /\ \A t \in tasks : t.n # r

\* the answer of the middleware to a rejected request is the 429 error
RejectedRequestIsAnswered429 ==
    \A r \in Rounds :
        rejected[r] # <<>> => rejected[r] = <<HTTPResponse(429, "rate limit exceeded", <<>>)>>

\* the outcomes that arrived for round r, in the order in which its channel
\* took them: those the loop has received, then those that wait in the buffer
Arrived(r) ==
    workerResults[r] \o (IF topology = "bus" THEN resultChan[r].buf ELSE results[r].buf)

IsPrefix(a, b) == Len(a) <= Len(b) /\ SubSeq(b, 1, Len(a)) = a

\* C28: WorkerResponses lists the outcomes in the order in which they arrived
\* at the coordinator: an outcome that arrives is placed behind all that
\* arrived for the round before it, and the returned sequence is an initial
\* part of the arrivals in that order.
C28_ArrivalOrder ==
    [][\A r \in Rounds :
          /\ IsPrefix(Arrived(r), Arrived(r)')
          /\ (result'[r] # <<>> /\ ~PublishFailed(r)') =>
                 IsPrefix(result'[r][1].WorkerResponses, Arrived(r)')]_vars

\* a direct round returned two outcomes, that of the worker registered second
\* first
C28_Witness ==
    /\ topology = "direct"
    /\ \E r \in DirectRounds :
         /\ result[r] # <<>>
         /\ Len(result[r][1].WorkerResponses) = 2
         /\ result[r][1].WorkerResponses[1].WorkerID = 2
         /\ result[r][1].WorkerResponses[2].WorkerID = 1
         /\ workers[1].LastSeen < workers[2].LastSeen

\* C30: bus topology, with the pendingReqs lookup, the channel send, the map
\* delete and the channel close as separate steps: under every interleaving
\* of handleWorkerResult with the cleanup of the same round, the send of
\* handleWorkerResult is never a send on a channel that is already closed.
C30_NeverSendsOnClosedChannel ==
    [][(cb.pc = "send" /\ cb'.pc = "idle") =>
           ~resultChan[cb.held[1].ch].closed]_vars

\* round r is in flight and handleWorkerResult finds its channel under its id
Registered(r) ==
    /\ InFlight(r)
    /\ reqID[r] \in DOMAIN pendingReqs
    /\ pendingReqs[reqID[r]] = r

\* round r runs the delete of its deferred cleanup in this step
EndsRound(r) == pc[r] = "deferDelete" /\ pc'[r] = "deferClose"

\* C31: bus topology. The end of one round removes only that round's own
\* correlation state: of two rounds in flight, also two that were submitted
\* with the same caller-supplied RequestID, the one that does not end still
\* has its own channel registered in pendingReqs afterwards, so that replies
\* addressed to its RequestID still reach it.
C31_CleanupRemovesOnlyOwnState ==
    [][\A r, r2 \in Rounds :
          (r # r2 /\ EndsRound(r) /\ Registered(r2)) => Registered(r2)']_vars

\* the same for two rounds that run under different ids
CleanupKeepsOtherIDs ==
    [][\A r, r2 \in Rounds :
          (r # r2 /\ reqID[r] # reqID[r2] /\ EndsRound(r) /\ Registered(r2)) =>
              Registered(r2)']_vars

\* the dispatch goroutines of round r that have not sent yet
RunningGoroutines(r) ==
    {w \in DOMAIN goroutines[r] : goroutines[r][w].pc = "running"}

\* the results channel of round r has room for every send that is still to come
RoomForEverySend(r) ==
    Len(results[r].buf) + Cardinality(RunningGoroutines(r))
        <= Cardinality(DOMAIN workerList[r])

\* C32: direct topology. Every dispatch goroutine of a round terminates: its
\* one send on the results channel never blocks, also after the collector has
\* returned on timeout or cancellation, because the channel has room for as
\* many outcomes as there are targets; and the channel is closed once, only
\* after all dispatch goroutines have sent.
C32_GoroutinesTerminate ==
    /\ [](\A r \in Rounds :
             /\ RoomForEverySend(r)
             /\ results[r].closed => RunningGoroutines(r) = {})
    /\ [][\A r \in Rounds : results[r].closed => results'[r].closed]_vars
    /\ \A r \in Rounds :
          (topology = "direct" /\ DOMAIN goroutines[r] # {}) ~>
              (RunningGoroutines(r) = {} /\ results[r].closed)

\* a direct round returned on its timeout with nothing collected; both
\* goroutines sent afterwards and the channel was closed behind them
C32_Witness ==
    /\ topology = "direct"
    /\ \E r \in DirectRounds :
         /\ pc[r] = "done" /\ timeoutFired[r]
         /\ result[r] # <<>> /\ result[r][1].WorkerResponses = <<>>
         /\ Cardinality(DOMAIN goroutines[r]) = NWorkers
         /\ RunningGoroutines(r) = {}
         /\ Len(results[r].buf) = NWorkers
         /\ results[r].closed

\* C33: bus topology. There is no expected reply count: a round whose task was
\* published never returns before its round timeout has fired or its context
\* is cancelled, however many workers have replied, and the channel-closed
\* branch of the collection loop is never taken.
C33_BusRoundWaitsForDeadline ==
    topology = "bus" =>
        \A r \in Rounds :
            /\ pc[r] = "collect" => ~resultChan[r].closed
            /\ (pc[r] = "collect" /\ ~timeoutFired[r] /\ ~ctxDone[r]) => result[r] = <<>>
            /\ (result[r] # <<>> /\ ~PublishFailed(r)) => timeoutFired[r] \/ ctxDone[r]

\* every subscriber has replied, the round has received the replies, and it
\* still waits for its deadline
C33_Witness ==
    /\ topology = "bus"
    /\ \E r \in Rounds :
         /\ pc[r] = "collect"
         /\ Len(workerResults[r]) = NSubscribers
         /\ resultChan[r].buf = <<>> /\ tasks = {} /\ resultsMsgs = {}
         /\ ~timeoutFired[r] /\ ~ctxDone[r]
         /\ result[r] = <<>>

\* the lists that hold the same outcomes as `list`, in every order
Reorderings(list) ==
    {[i \in DOMAIN list |-> list[f[i]]] :
        f \in {g \in [DOMAIN list -> DOMAIN list] :
                  \A i, j \in DOMAIN list : g[i] = g[j] => i = j}}

\* C34: the Aggregated Result does not depend on arrival order: for every
\* permutation of the same outcomes AggregateResults returns the same
\* FinalValue under each strategy and calculateReliabilityNote the same note;
\* in particular two runs of the majority strategy on the same outcomes give
\* the same value.
C34_OrderIndependent ==
    (topology = "aggregator" /\ finalValue # <<>>) =>
        \A q \in Reorderings(aggInput) :
            /\ AggregateResults(q, aggregator) = {finalValue[1]}
            /\ calculateReliabilityNote(q) = calculateReliabilityNote(aggInput)

\* the values a call can return, and the note, are the same for every order
\* of the outcomes; under every strategy but the majority vote there is one
\* such value
SameReturnsInEveryOrder ==
    (topology = "aggregator" /\ finalValue # <<>>) =>
        \A q \in Reorderings(aggInput) :
            /\ AggregateResults(q, aggregator) = AggregateResults(aggInput, aggregator)
            /\ aggregator # "majority" => AggregateResults(q, aggregator) = {finalValue[1]}
            /\ calculateReliabilityNote(q) = calculateReliabilityNote(aggInput)

\* C35: majority bucketing rounds every successful value to its nearest
\* integer: for every value v, positive, zero or negative, the bucket b used
\* for v satisfies |v - b| <= 1/2.
C35_BucketIsNearest ==
    (topology = "aggregator" /\ aggregator = "majority" /\ finalValue # <<>>) =>
        \A i \in DOMAIN aggInput :
            aggInput[i].Err = "" =>
                Abs(aggInput[i].Value - Whole(Rounded(aggInput[i].Value))) <= 5

\* the same for the values that are not negative
BucketIsNearestUnlessNegative ==
    (topology = "aggregator" /\ aggregator = "majority" /\ finalValue # <<>>) =>
        \A i \in DOMAIN aggInput :
            (aggInput[i].Err = "" /\ aggInput[i].Value >= 0) =>
                Abs(aggInput[i].Value - Whole(Rounded(aggInput[i].Value))) <= 5

\* the results published in this step
NewResults == resultsMsgs' \ resultsMsgs

\* this step published one result, and it answers task t in the name of the
\* worker that received it
OneResultFor(t) ==
    \E m \in resultsMsgs' :
        /\ NewResults = {m}
        /\ m.res.RequestID = t.ID
        /\ m.res.WorkerID = t.to

\* bus worker protocol as first stated: for every well-formed task message a
\* worker receives it publishes exactly one result, carrying the task's id
\* and the worker's id, whether the processing succeeds or fails; a malformed
\* task produces no result.
C36_ExactlyOneResultPerTask ==
    [][\A t \in tasks :
          t \notin tasks' =>
              IF t.kind = "request" THEN OneResultFor(t) ELSE NewResults = {}]_vars

\* C36: bus worker protocol. For every well-formed task message a worker
\* receives it publishes one result, carrying the task's id as RequestID and
\* the worker's own id as WorkerID, whether the simulated processing succeeds
\* or fails, unless the publish itself fails: then the failure is logged and
\* no result is published for the task. A malformed task produces no result.
C36_OneResultPerTaskUnlessPublishFails ==
    [][\A t \in tasks :
          t \notin tasks' =>
              IF t.kind = "request"
              THEN \/ OneResultFor(t) /\ workerLog' = workerLog
                   \/ /\ NewResults = {}
                      /\ workerLog' = Log("failed to publish result", EmptyID)
              ELSE /\ NewResults = {}
                   /\ workerLog' = Log("failed to unmarshal task", EmptyID)]_vars

\* a worker has answered one task with a value and one with its simulated
\* failure, and has dropped a message that did not decode
C36_Witness ==
    /\ topology = "worker"
    /\ tasks = {}
    /\ Cardinality(resultsMsgs) = 2
    /\ \E m1, m2 \in resultsMsgs :
         /\ m1.res.Err = "" /\ m2.res.Err = "simulated worker failure"
         /\ m1.res.RequestID # m2.res.RequestID
         /\ m1.res.WorkerID = m2.res.WorkerID
    /\ workerLog = Log("failed to unmarshal task", EmptyID)

\* C37: worker start-up registration (direct topology). The worker attempts
\* to register with the coordinator at most 3 times, makes no further attempt
\* after the first success, and starts serving tasks in every case, also when
\* all 3 attempts fail.
C37_RegistersAtMostThreeTimes ==
    /\ [](\A w \in WorkerIDs :
             /\ main[w].calls <= 3
             /\ main[w].serving => (main[w].registered \/ main[w].calls = 3
                                        \/ ~main[w].register))
    /\ [][\A w \in WorkerIDs : main[w].registered => main'[w].calls = main[w].calls]_vars
    /\ \A w \in WorkerIDs : (topology = "startup") ~> main[w].serving

\* one worker serves after three failed attempts, the other after succeeding
\* at its second attempt
C37_Witness ==
    /\ topology = "startup"
    /\ \E w1, w2 \in WorkerIDs :
         /\ main[w1].serving /\ ~main[w1].registered /\ main[w1].calls = 3
         /\ main[w2].serving /\ main[w2].registered /\ main[w2].calls = 2

\* C38: CalculateReliability(successCount, totalCount), for two counts,
\* returns true exactly when totalCount > 0 and
\* 10 * successCount >= 7 * totalCount, and false when totalCount is 0.
C38_ReliableFromSeventyPercent ==
    (topology = "utils" /\ reliable # <<>>) =>
        /\ reliable[1] = (counts[2] > 0 /\ 10 * counts[1] >= 7 * counts[2])
        /\ counts[2] = 0 => reliable[1] = FALSE
        /\ counts = <<7, 10>> => reliable[1] = TRUE
        /\ counts = <<6, 9>> => reliable[1] = FALSE

\* seven successes of ten attempts were found reliable
C38_Witness ==
    /\ topology = "utils"
    /\ counts = <<7, 10>>
    /\ reliable = <<TRUE>>

====
